---- MODULE Spec2Model ----
(***************************************************************************)
(* A model of the attack automation of AutoLoot-CoC-Attacker.              *)
(*                                                                         *)
(*   SpecAttack   attack.run_single_attack, one worker thread driven by a  *)
(*                controller that sets the stop and pause events.          *)
(*                                                                         *)
(* Time is counted in units of 0.2 s (the sleep of _honour_pause); a       *)
(* detection call takes no time.  A click and the stop check written       *)
(* directly before it are one step of the worker.                          *)
(***************************************************************************)
EXTENDS Integers, Sequences, FiniteSets, TLC

\* ------------------------------------------------------------------------
\*  Bounds of the model
\* ------------------------------------------------------------------------

\* largest settings.troop_count / settings.spell_count drawn for a config
MaxTroops == 3
MaxSpells == 2
\* the 90 s monitor timeout (attack.py:312) and the 30 s Return-Home
\* timeout (attack.py:356), scaled down, in units of 0.2 s
MonitorTimeout == 10
ReturnHomeTimeout == 6
MaxAttacks == 2
MaxStarts == 3

\* ------------------------------------------------------------------------
\*  Program constants (units of 0.2 s)
\* ------------------------------------------------------------------------

PAUSE_SLEEP == 1
POLL_SLEEP == 5
WAIT_FOR_INTERVAL == 5

\* ------------------------------------------------------------------------
\*  Values
\* ------------------------------------------------------------------------

None == <<>>

Min(a, b) == IF a <= b THEN a ELSE b

Rep(x, n) == [i \in 1..n |-> x]

RECURSIVE Flatten(_)
Flatten(ss) == IF ss = <<>> THEN <<>> ELSE Head(ss) \o Flatten(Tail(ss))

Click(kind, p) == [k |-> kind, at |-> p]

CountKind(cs, kinds) == Cardinality({i \in 1..Len(cs) : cs[i].k \in kinds})

\* ------------------------------------------------------------------------
\*  Configuration (the mapping run_single_attack consumes)
\* ------------------------------------------------------------------------

HeroKey(n) == <<"hero_1", "hero_2", "hero_3", "hero_4">>[n]
HeroDeployKey(n) ==
    <<"hero_1_deploy", "hero_2_deploy", "hero_3_deploy", "hero_4_deploy">>[n]

BasePositions ==
    [ attack_menu        |-> <<1, 30>>,
      find_match         |-> <<3, 25>>,
      confirm_attack     |-> <<28, 27>>,
      spell              |-> <<14, 31>>,
      spell_target_left  |-> <<6, 6>>,
      spell_target_center|-> <<10, 9>>,
      spell_target_right |-> <<14, 6>>,
      siege              |-> <<9, 31>>,
      siege_deploy       |-> <<0, 6>>,
      troop              |-> <<8, 31>>,
      deploy_left_up     |-> <<8, 0>>,
      deploy_left_left   |-> <<0, 6>>,
      deploy_left_bottom |-> <<8, 12>>,
      deploy_right_up    |-> <<12, 0>>,
      deploy_right_right |-> <<20, 6>>,
      deploy_right_bottom|-> <<12, 12>>,
      hero_1             |-> <<10, 31>>,
      hero_2             |-> <<11, 31>>,
      hero_3             |-> <<12, 31>>,
      hero_4             |-> <<13, 31>>,
      hero_1_deploy      |-> <<4, 9>>,
      hero_2_deploy      |-> <<4, 3>>,
      hero_3_deploy      |-> <<16, 9>>,
      hero_4_deploy      |-> <<16, 3>>,
      surrender          |-> <<1, 28>>,
      confirm_ok         |-> <<18, 20>>
    ]

PositionKeys == DOMAIN BasePositions

\* the navigation positions run_single_attack cannot do without
Mandatory == {"attack_menu", "find_match", "confirm_attack"}

\* the sets of position keys a drawn configuration leaves unset
UnsetChoices ==
    { {},
      {"attack_menu"}, {"find_match"}, {"confirm_attack"},
      {"spell"}, {"spell_target_left", "spell_target_right"},
      {"siege_deploy"}, {"siege"},
      {"troop"}, {"deploy_left_left"},
      {"deploy_left_up", "deploy_left_left", "deploy_right_right"},
      {"hero_2", "hero_3_deploy"},
      {"hero_1", "hero_2", "hero_3", "hero_4"},
      {"surrender"}, {"confirm_ok"} }

\* a template is unset, set but its file missing, or usable
TemplateStates == {"unset", "nofile", "ok"}

Config(u, tf, tr, tc, sc) ==
    [ positions |-> [k \in PositionKeys |->
                        IF k \in u THEN None ELSE BasePositions[k]],
      templates |-> [fifty_percent |-> tf, return_home |-> tr],
      settings  |-> [troop_count |-> tc, spell_count |-> sc] ]

\* unset corners that leave four, three, two and one deployment edge
EdgeChoices ==
    { {}, {"deploy_left_up"}, {"deploy_left_left"},
      {"deploy_left_left", "deploy_right_up"} }

\* the configurations an attack is started with: every choice of unset keys
\* with full counts and templates, every choice of counts and templates
\* with every key set, and more troops than sides on every number of sides
Configs ==
    { Config(u, "ok", "ok", MaxTroops, MaxSpells) : u \in UnsetChoices }
    \cup
    { Config({}, tf, tr, tc, sc) :
        tf \in TemplateStates, tr \in {"unset", "ok"},
        tc \in {0, 1, MaxTroops}, sc \in {0, MaxSpells} }
    \cup
    { Config(u, "unset", "unset", MaxTroops + 2, 0) : u \in EdgeChoices }

\* ------------------------------------------------------------------------
\*  attack.py helpers
\* ------------------------------------------------------------------------

\* _pos(config, key): the coordinate, or None
_pos(cfg, key) == cfg.positions[key]

\* _tpl(config, key): the template path when set and its file exists
_tpl(cfg, key) == IF cfg.templates[key] = "ok" THEN <<"img", key>> ELSE None

\* an interpolation that answers a count of one with the two end points
_interpolate_positions_Endpoints(p1, p2, count) ==
    IF count <= 1
    THEN <<p1, p2>>
    ELSE [ j \in 1..count |->
             << (p1[1] * (count - 1) + (j - 1) * (p2[1] - p1[1])) \div (count - 1),
                (p1[2] * (count - 1) + (j - 1) * (p2[2] - p1[2])) \div (count - 1) >> ]

\* an interpolation that divides by count, not count - 1: it stops short of p2
_interpolate_positions_OpenEnd(p1, p2, count) ==
    IF count <= 1
    THEN << << (p1[1] + p2[1]) \div 2, (p1[2] + p2[2]) \div 2 >> >>
    ELSE [ j \in 1..count |->
             << (p1[1] * count + (j - 1) * (p2[1] - p1[1])) \div count,
                (p1[2] * count + (j - 1) * (p2[2] - p1[2])) \div count >> ]

\* _interpolate_positions(p1, p2, count); int() of a value between two
\* non-negative coordinates is its floor
_interpolate_positions(p1, p2, count) ==
    IF count <= 1
    THEN << << (p1[1] + p2[1]) \div 2, (p1[2] + p2[2]) \div 2 >> >>
    ELSE [ j \in 1..count |->
             << (p1[1] * (count - 1) + (j - 1) * (p2[1] - p1[1])) \div (count - 1),
                (p1[2] * (count - 1) + (j - 1) * (p2[2] - p1[2])) \div (count - 1) >> ]

\* squared distance: orders points as math.hypot does
Dist2(p, q) == (p[1] - q[1]) * (p[1] - q[1]) + (p[2] - q[2]) * (p[2] - q[2])

\* a sort that leaves the farthest target first
SortByDist_FarthestFirst(ts, ref) ==
    LET far(a, b) == Dist2(a, ref) >= Dist2(b, ref)
    IN  SortSeq(ts, far)

\* list.sort(key=_dist): stable, ascending
RECURSIVE SortByDist(_, _)
SortByDist(ts, ref) ==
    IF ts = <<>> THEN <<>>
    ELSE LET i == CHOOSE i \in 1..Len(ts) :
                    /\ \A j \in 1..Len(ts) : Dist2(ts[i], ref) <= Dist2(ts[j], ref)
                    /\ \A j \in 1..(i - 1) : Dist2(ts[j], ref) > Dist2(ts[i], ref)
         IN  <<ts[i]>> \o SortByDist(SubSeq(ts, 1, i - 1) \o SubSeq(ts, i + 1, Len(ts)), ref)

\* the configured spell targets, in the order left, center, right
SpellTargets(cfg) ==
    SelectSeq(<< _pos(cfg, "spell_target_left"),
                 _pos(cfg, "spell_target_center"),
                 _pos(cfg, "spell_target_right") >>,
              LAMBDA p : p # None)

\* a distribution that drops the remainder
distribution_NoRemainder(total, groups) ==
    [i \in 1..groups |-> total \div groups]

\* a distribution that gives the remainder to the last targets
distribution_LastGetExtra(total, groups) ==
    LET base      == total \div groups
        remainder == total % groups
    IN  [i \in 1..groups |-> base + (IF groups - i < remainder THEN 1 ELSE 0)]

\* the share of each of `groups` targets (or sides) when `total` clicks are
\* spread over them: base = total // groups each, and one more for the
\* first total % groups of them (i is 1-based here, 0-based in the code)
distribution(total, groups) ==
    LET base      == total \div groups
        remainder == total % groups
    IN  [i \in 1..groups |-> base + (IF i - 1 < remainder THEN 1 ELSE 0)]

\* step 4: the clicks of the spell deployment, the slot click first
SpellPlan(cfg) ==
    LET spell_slot    == _pos(cfg, "spell")
        siege_deploy  == _pos(cfg, "siege_deploy")
        spell_count   == cfg.settings.spell_count
        targets0      == SpellTargets(cfg)
    IN  IF spell_slot # None /\ targets0 # <<>> /\ spell_count > 0
        THEN LET targets     == IF siege_deploy # None
                                THEN SortByDist(targets0, siege_deploy)
                                ELSE targets0
                 num_targets == Len(targets)
                 counts      == distribution(spell_count, num_targets)
             IN  <<Click("spell_slot", spell_slot)>> \o
                 Flatten([i \in 1..num_targets |->
                     Rep(Click("spell", targets[i]), counts[i])])
        ELSE <<>>

\* step 5: the clicks of the siege deployment
SiegePlan(cfg) ==
    LET siege_slot   == _pos(cfg, "siege")
        siege_deploy == _pos(cfg, "siege_deploy")
    IN  IF siege_slot # None /\ siege_deploy # None
        THEN <<Click("siege_slot", siege_slot), Click("siege", siege_deploy)>>
        ELSE <<>>

\* the deployment edges whose two corners are both configured
EdgePairs(cfg) ==
    SelectSeq(<< <<_pos(cfg, "deploy_left_up"),     _pos(cfg, "deploy_left_left")>>,
                 <<_pos(cfg, "deploy_left_left"),   _pos(cfg, "deploy_left_bottom")>>,
                 <<_pos(cfg, "deploy_right_up"),    _pos(cfg, "deploy_right_right")>>,
                 <<_pos(cfg, "deploy_right_right"), _pos(cfg, "deploy_right_bottom")>> >>,
              LAMBDA e : e[1] # None /\ e[2] # None)

\* step 6: the slot click, then one click per interpolated point
TroopPlan(cfg) ==
    LET troop_slot  == _pos(cfg, "troop")
        troop_count == cfg.settings.troop_count
        edge_pairs  == EdgePairs(cfg)
    IN  IF troop_slot # None /\ edge_pairs # <<>>
        THEN LET num_sides     == Len(edge_pairs)
                 side_count(i) == distribution(troop_count, num_sides)[i]
             IN  <<Click("troop_slot", troop_slot)>> \o
                 Flatten([i \in 1..num_sides |->
                     IF side_count(i) <= 0 THEN <<>>
                     ELSE LET positions == _interpolate_positions(
                                  edge_pairs[i][1], edge_pairs[i][2], side_count(i))
                          IN  [j \in 1..Len(positions) |-> Click("troop", positions[j])]])
        ELSE <<>>

\* hero_slots: the heroes whose slot and deploy position are both set
HeroSlots(cfg) ==
    SelectSeq(<<1, 2, 3, 4>>,
              LAMBDA n : _pos(cfg, HeroKey(n)) # None /\ _pos(cfg, HeroDeployKey(n)) # None)

\* step 7: slot click then deploy click, hero by hero
HeroPlan(cfg) ==
    LET hero_slots == HeroSlots(cfg)
    IN  Flatten([i \in 1..Len(hero_slots) |->
            << Click("hero_slot", _pos(cfg, HeroKey(hero_slots[i]))),
               Click("hero_deploy", _pos(cfg, HeroDeployKey(hero_slots[i]))) >>])

\* step 8: one more click on each hero slot
AbilityPlan(cfg) ==
    LET hero_slots == HeroSlots(cfg)
    IN  [i \in 1..Len(hero_slots) |-> Click("ability", _pos(cfg, HeroKey(hero_slots[i])))]


\* ------------------------------------------------------------------------
\*  State of the engine (core/attack_engine.py, core/location_cache.py)
\* ------------------------------------------------------------------------

VARIABLES
    file,            \* locations_cache.json: [kind, doc]
    images,          \* the button keys whose template image exists in img/
    _cache,          \* ButtonDetector._cache
    _cache_mode,     \* ButtonDetector._cache_mode
    _return_home_ok, \* ButtonDetector._return_home_ok
    num_heroes,      \* AttackSession.num_heroes
    call,            \* the detector method called last: its key, its local `detected`
    ret,             \* what that call returned
    detect_calls,    \* calls of pyautogui.locateOnScreen that call made
    epc,             \* position of AttackSession.run
    eclicks,         \* every click issued through Clicker.click, in order
    eclock,          \* time.time() - start of the wait loop being run
    shot,            \* what the screen showed at the latest poll
    outcome,         \* what wait_for_battle_end returned
    hero_buttons,    \* local `buttons` of activate_hero_abilities
    bar              \* the keys whose button is on the bar of the base attacked

detectorVars == << file, images, _cache, _cache_mode, _return_home_ok,
                   call, ret, detect_calls >>

sessionVars == << num_heroes, epc, eclicks, eclock, shot, outcome, hero_buttons,
                  bar >>

\* nothing polled yet
NoShot == [fifty_percent |-> FALSE, return_home |-> FALSE]

engineVars == << detectorVars, sessionVars >>

NoFile == [kind |-> "missing", doc |-> <<>>]

\* no detector call made yet
NoCall == [op |-> "none", key |-> "", detected |-> <<>>, written |-> "none"]

\* no AttackSession and no ButtonDetector in use
EngineOff ==
    /\ file = NoFile
    /\ images = {}
    /\ _cache = <<>>
    /\ _cache_mode = "use"
    /\ _return_home_ok = FALSE
    /\ call = NoCall
    /\ ret = <<>>
    /\ detect_calls = 0
    /\ num_heroes = 0
    /\ epc = <<"off", 0>>
    /\ eclicks = <<>>
    /\ eclock = 0
    /\ shot = NoShot
    /\ outcome = "none"
    /\ hero_buttons = <<>>
    /\ bar = {}

\* ------------------------------------------------------------------------
\*  State of one call of a routine that only computes a value
\* ------------------------------------------------------------------------

VARIABLE
    calc          \* the routine called, its arguments, and its value once returned

\* no such call made
NoCalc == [fn |-> "none", args |-> <<>>, out |-> <<>>, done |-> TRUE]

\* ------------------------------------------------------------------------
\*  State of one run_single_attack call
\* ------------------------------------------------------------------------

VARIABLES
    config,       \* the configuration mapping passed in
    stop_event,   \* threading.Event set by the controller
    pause_event,  \* threading.Event set and cleared by the controller
    pc,           \* <<step, phase>> of the worker inside run_single_attack
    todo,         \* the clicks of the current step still to issue
    got_fifty,    \* local got_fifty
    result,       \* "running", or the value returned: "True" / "False"
    clicks,       \* every click issued through core.clicker.click, in order
    clock,        \* time.time() - start of the wait loop being run
    samples,      \* calls of is_visible(fifty_tpl) made by the monitor
    waits,        \* poll sleeps and jitter waits completed
    stopAt        \* where the worker was when stop_event was set

attackVars == << config, stop_event, pause_event, pc, todo, got_fifty, result,
                 clicks, clock, samples, waits, stopAt >>

VARIABLES
    batch,        \* the call of run_attacks in progress: its arguments and locals
    panel         \* the SetupPanel object, its worker threads and its Tk queue

vars == << attackVars, engineVars, calc, batch, panel >>

\* no call of run_attacks is in progress
NoBatch ==
    [ phase |-> "off", total |-> 0, wall_enabled |-> FALSE, wall_every |-> 1,
      has_callback |-> FALSE, i |-> 0, started |-> 0, reported |-> <<>>,
      wall_calls |-> 0, wall_cycles |-> 0, wall_errors |-> 0 ]

\* no SetupPanel has been built
NoPanel ==
    [ _bot_running |-> FALSE, _bot_stop |-> FALSE, _bot_pause |-> FALSE,
      _panel_visible |-> FALSE, destroyed |-> TRUE, workers |-> <<>>,
      queue |-> 0 ]

NotStopped ==
    [step |-> "none", phase |-> "none", paused |-> FALSE, clicks |-> 0, waits |-> 0,
     samples |-> 0]

\* the steps of run_single_attack that end with _honour_pause / _check_stop
NextStep(step) ==
    CASE step = "zoom"           -> "attack_menu"
      [] step = "attack_menu"    -> "find_match"
      [] step = "find_match"     -> "confirm_attack"
      [] step = "confirm_attack" -> "spells"
      [] step = "spells"         -> "siege"
      [] step = "siege"          -> "troops"
      [] step = "troops"         -> "heroes"
      [] step = "heroes"         -> "abilities"
      [] step = "abilities"      -> "monitor"
      [] step = "monitor"        -> "exit"

InitAttack ==
    /\ config \in Configs
    /\ stop_event = FALSE
    /\ pause_event = FALSE
    /\ pc = <<"zoom", "act">>
    /\ todo = <<>>
    /\ got_fifty = FALSE
    /\ result = "running"
    /\ clicks = <<>>
    /\ clock = 0
    /\ samples = 0
    /\ waits = 0
    /\ stopAt = NotStopped
    /\ EngineOff
    /\ calc = NoCalc
    /\ batch = NoBatch
    /\ panel = NoPanel

\* `return value`
Return(value) ==
    /\ pc' = <<"done", "done">>
    /\ result' = IF value THEN "True" ELSE "False"
    /\ todo' = <<>>

\* ------------------------------------------------------------------------
\*  The controller: sets and clears the two events while the attack runs
\* ------------------------------------------------------------------------

SetStop ==
    /\ UNCHANGED <<engineVars, calc, batch, panel>>
    /\ result = "running"
    /\ ~stop_event
    /\ stop_event' = TRUE
    /\ stopAt' = [step |-> pc[1], phase |-> pc[2], paused |-> pause_event,
                  clicks |-> Len(clicks), waits |-> waits, samples |-> samples]
    /\ UNCHANGED << config, pause_event, pc, todo, got_fifty, result, clicks,
                    clock, samples, waits >>

SetPause ==
    /\ UNCHANGED <<engineVars, calc, batch, panel>>
    /\ result = "running"
    /\ ~pause_event
    /\ pause_event' = TRUE
    /\ UNCHANGED << config, stop_event, pc, todo, got_fifty, result, clicks,
                    clock, samples, waits, stopAt >>

ClearPause ==
    /\ UNCHANGED <<engineVars, calc, batch, panel>>
    /\ result = "running"
    /\ pause_event
    /\ pause_event' = FALSE
    /\ UNCHANGED << config, stop_event, pc, todo, got_fifty, result, clicks,
                    clock, samples, waits, stopAt >>

\* ------------------------------------------------------------------------
\*  The worker: run_single_attack
\* ------------------------------------------------------------------------

\* zoom_out(log): moves and scrolls, no click
ZoomOut ==
    /\ UNCHANGED <<engineVars, calc, batch, panel>>
    /\ pc = <<"zoom", "act">>
    /\ pc' = <<"zoom", "chk">>
    /\ UNCHANGED << config, stop_event, pause_event, todo, got_fifty, result,
                    clicks, clock, samples, waits, stopAt >>

\* a pause wait that only the pause flag ends
HonourPause_IgnoresStop ==
    /\ UNCHANGED <<engineVars, calc, batch, panel>>
    /\ pc[2] = "pause"
    /\ pc[1] # "monitor"
    /\ IF pause_event
       THEN pc' = pc
       ELSE pc' = <<pc[1], "chk">>
    /\ UNCHANGED << config, stop_event, pause_event, todo, got_fifty, result,
                    clicks, clock, samples, waits, stopAt >>

\* _honour_pause(): one turn of its loop, or its exit
HonourPause ==
    /\ UNCHANGED <<engineVars, calc, batch, panel>>
    /\ pc[2] = "pause"
    /\ pc[1] # "monitor"
    /\ IF pause_event /\ ~stop_event
       THEN pc' = pc                        \* time.sleep(0.2)
       ELSE pc' = <<pc[1], "chk">>
    /\ UNCHANGED << config, stop_event, pause_event, todo, got_fifty, result,
                    clicks, clock, samples, waits, stopAt >>

\* if _check_stop(): return False     (after steps 0 to 8)
CheckStop ==
    /\ UNCHANGED <<engineVars, calc, batch, panel>>
    /\ pc[2] = "chk"
    /\ pc[1] # "monitor"
    /\ IF stop_event
       THEN Return(FALSE)
       ELSE /\ pc' = <<NextStep(pc[1]), "act">>
            /\ UNCHANGED << todo, result >>
    /\ UNCHANGED << config, stop_event, pause_event, got_fifty, clicks, clock,
                    samples, waits, stopAt >>

\* steps 1 to 3: a mandatory position, clicked when set
Navigate ==
    /\ UNCHANGED <<engineVars, calc, batch, panel>>
    /\ pc[2] = "act"
    /\ pc[1] \in {"attack_menu", "find_match", "confirm_attack"}
    /\ IF _pos(config, pc[1]) = None
       THEN /\ Return(FALSE)
            /\ UNCHANGED clicks
       ELSE /\ clicks' = Append(clicks, Click(pc[1], _pos(config, pc[1])))
            /\ pc' = <<pc[1], "pause">>
            /\ UNCHANGED << todo, result >>
    /\ UNCHANGED << config, stop_event, pause_event, got_fifty, clock, samples,
                    waits, stopAt >>

\* a plan that deploys the troops at the siege step and the siege machine
\* at the troop step
Plan_TroopsBeforeSiege(step) ==
    CASE step = "spells"    -> SpellPlan(config)
      [] step = "siege"     -> TroopPlan(config)
      [] step = "troops"    -> SiegePlan(config)
      [] step = "heroes"    -> HeroPlan(config)
      [] step = "abilities" -> AbilityPlan(config)

\* the clicks a deployment step plans
Plan(step) ==
    CASE step = "spells"    -> SpellPlan(config)
      [] step = "siege"     -> SiegePlan(config)
      [] step = "troops"    -> TroopPlan(config)
      [] step = "heroes"    -> HeroPlan(config)
      [] step = "abilities" -> AbilityPlan(config)

\* a deployment step that gives the attack up when it has nothing to click
BeginDeploy_AbortsOnEmpty ==
    /\ UNCHANGED <<engineVars, calc, batch, panel>>
    /\ pc[2] = "act"
    /\ pc[1] \in {"spells", "siege", "troops", "heroes", "abilities"}
    /\ LET plan == Plan(pc[1])
       IN  IF plan = <<>>
           THEN /\ Return(FALSE)
                /\ UNCHANGED clicks
           ELSE /\ clicks' = Append(clicks, Head(plan))
                /\ todo' = Tail(plan)
                /\ pc' = <<pc[1], IF Tail(plan) = <<>> THEN "pause" ELSE "clicks">>
                /\ UNCHANGED result
    /\ UNCHANGED << config, stop_event, pause_event, got_fifty, clock,
                    samples, waits, stopAt >>

\* steps 4 to 8, entered: nothing to do, or the first click of the plan
BeginDeploy ==
    /\ UNCHANGED <<engineVars, calc, batch, panel>>
    /\ pc[2] = "act"
    /\ pc[1] \in {"spells", "siege", "troops", "heroes", "abilities"}
    /\ LET plan == Plan(pc[1])
       IN  IF plan = <<>>
           THEN /\ pc' = <<pc[1], "pause">>
                /\ UNCHANGED << clicks, todo >>
           ELSE /\ clicks' = Append(clicks, Head(plan))
                /\ todo' = Tail(plan)
                /\ pc' = <<pc[1], IF Tail(plan) = <<>> THEN "pause" ELSE "clicks">>
    /\ UNCHANGED << config, stop_event, pause_event, got_fifty, result, clock,
                    samples, waits, stopAt >>

\* the next click of the spell, siege, hero or ability loops
DeployClick ==
    /\ UNCHANGED <<engineVars, calc, batch, panel>>
    /\ pc[2] = "clicks"
    /\ pc[1] \in {"spells", "siege", "heroes", "abilities"}
    /\ clicks' = Append(clicks, Head(todo))
    /\ todo' = Tail(todo)
    /\ pc' = <<pc[1], IF Tail(todo) = <<>> THEN "pause" ELSE "clicks">>
    /\ UNCHANGED << config, stop_event, pause_event, got_fifty, result, clock,
                    samples, waits, stopAt >>

\* TroopClick without its stop check
TroopClick_NoStopCheck ==
    /\ UNCHANGED <<engineVars, calc, batch, panel>>
    /\ pc = <<"troops", "clicks">>
    /\ clicks' = Append(clicks, Head(todo))
    /\ todo' = Tail(todo)
    /\ pc' = <<"troops", IF Tail(todo) = <<>> THEN "pause" ELSE "clicks">>
    /\ UNCHANGED << config, stop_event, pause_event, got_fifty, result, clock,
                    samples, waits, stopAt >>

\* for px, py in positions: if _check_stop(): return False; click(px, py)
TroopClick ==
    /\ UNCHANGED <<engineVars, calc, batch, panel>>
    /\ pc = <<"troops", "clicks">>
    /\ IF stop_event
       THEN /\ Return(FALSE)
            /\ UNCHANGED clicks
       ELSE /\ clicks' = Append(clicks, Head(todo))
            /\ todo' = Tail(todo)
            /\ pc' = <<"troops", IF Tail(todo) = <<>> THEN "pause" ELSE "clicks">>
            /\ UNCHANGED result
    /\ UNCHANGED << config, stop_event, pause_event, got_fifty, clock, samples,
                    waits, stopAt >>


\* where a Return-Home match is reported by find_on_screen
ReturnHomeMatch == <<15, 28>>

\* step 9 entered: start = time.time(), or the fixed 30 s wait
MonitorBegin ==
    /\ UNCHANGED <<engineVars, calc, batch, panel>>
    /\ pc = <<"monitor", "act">>
    /\ got_fifty' = FALSE
    /\ IF _tpl(config, "fifty_percent") # None
       THEN /\ clock' = 0
            /\ pc' = <<"monitor", "guard">>
            /\ UNCHANGED waits
       ELSE /\ waits' = waits + 1           \* time.sleep(30.0)
            /\ pc' = <<"monitor", "chk">>
            /\ UNCHANGED clock
    /\ UNCHANGED << config, stop_event, pause_event, todo, result, clicks,
                    samples, stopAt >>

\* while time.time() - start < timeout: if _check_stop(): break
MonitorGuard ==
    /\ UNCHANGED <<engineVars, calc, batch, panel>>
    /\ pc = <<"monitor", "guard">>
    /\ pc' = IF clock < MonitorTimeout /\ ~stop_event
             THEN <<"monitor", "pause">>
             ELSE <<"monitor", "chk">>
    /\ UNCHANGED << config, stop_event, pause_event, todo, got_fifty, result,
                    clicks, clock, samples, waits, stopAt >>

\* _honour_pause() inside the monitor loop; the clock runs on while it
\* sleeps (kept at the timeout once it has passed it)
MonitorPause ==
    /\ UNCHANGED <<engineVars, calc, batch, panel>>
    /\ pc = <<"monitor", "pause">>
    /\ IF pause_event /\ ~stop_event
       THEN /\ clock' = Min(clock + PAUSE_SLEEP, MonitorTimeout)
            /\ pc' = pc
       ELSE /\ pc' = <<"monitor", "sample">>
            /\ UNCHANGED clock
    /\ UNCHANGED << config, stop_event, pause_event, todo, got_fifty, result,
                    clicks, samples, waits, stopAt >>

\* if is_visible(fifty_tpl): got_fifty = True; time.sleep(wait); break
\* else: time.sleep(1.0)
MonitorSample(visible) ==
    /\ UNCHANGED <<engineVars, calc, batch, panel>>
    /\ pc = <<"monitor", "sample">>
    /\ samples' = samples + 1
    /\ waits' = waits + 1
    /\ IF visible
       THEN /\ got_fifty' = TRUE
            /\ pc' = <<"monitor", "chk">>
            /\ UNCHANGED clock
       ELSE /\ clock' = clock + POLL_SLEEP
            /\ pc' = <<"monitor", "guard">>
            /\ UNCHANGED got_fifty
    /\ UNCHANGED << config, stop_event, pause_event, todo, result, clicks, stopAt >>

\* a check after the monitor that reports every stopped attack as failed
MonitorCheck_StoppedIsFalse ==
    /\ UNCHANGED <<engineVars, calc, batch, panel>>
    /\ pc = <<"monitor", "chk">>
    /\ IF stop_event
       THEN Return(FALSE)
       ELSE /\ pc' = <<"exit", "surrender">>
            /\ UNCHANGED << todo, result >>
    /\ UNCHANGED << config, stop_event, pause_event, got_fifty, clicks, clock,
                    samples, waits, stopAt >>

\* if _check_stop(): return got_fifty     (after the monitor)
MonitorCheck ==
    /\ UNCHANGED <<engineVars, calc, batch, panel>>
    /\ pc = <<"monitor", "chk">>
    /\ IF stop_event
       THEN Return(got_fifty)
       ELSE /\ pc' = <<"exit", "surrender">>
            /\ UNCHANGED << todo, result >>
    /\ UNCHANGED << config, stop_event, pause_event, got_fifty, clicks, clock,
                    samples, waits, stopAt >>

\* step 10: surrender, then OK, each clicked when set
ExitClick ==
    /\ UNCHANGED <<engineVars, calc, batch, panel>>
    /\ pc[1] = "exit"
    /\ pc[2] \in {"surrender", "confirm_ok"}
    /\ clicks' = IF _pos(config, pc[2]) # None
                 THEN Append(clicks, Click(pc[2], _pos(config, pc[2])))
                 ELSE clicks
    /\ pc' = <<"exit", IF pc[2] = "surrender" THEN "confirm_ok" ELSE "return">>
    /\ UNCHANGED << config, stop_event, pause_event, todo, got_fifty, result,
                    clock, samples, waits, stopAt >>

\* step 11 entered: wait_for(return_tpl, timeout=30.0, interval=1.0), or
\* the fixed 5 s wait
ReturnHomeBegin ==
    /\ UNCHANGED <<engineVars, calc, batch, panel>>
    /\ pc = <<"exit", "return">>
    /\ IF _tpl(config, "return_home") # None
       THEN /\ clock' = 0
            /\ pc' = <<"exit", "wait_for">>
            /\ UNCHANGED << waits, result, todo >>
       ELSE /\ waits' = waits + 1           \* time.sleep(5.0)
            /\ Return(got_fifty)
            /\ UNCHANGED clock
    /\ UNCHANGED << config, stop_event, pause_event, got_fifty, clicks, samples,
                    stopAt >>

\* detector.wait_for: one turn of its loop, then click(*pos) when found
WaitFor(found) ==
    /\ UNCHANGED <<engineVars, calc, batch, panel>>
    /\ pc = <<"exit", "wait_for">>
    /\ IF clock < ReturnHomeTimeout
       THEN IF found
            THEN /\ clicks' = Append(clicks, Click("return_home", ReturnHomeMatch))
                 /\ Return(got_fifty)
                 /\ UNCHANGED << clock, waits >>
            ELSE /\ clock' = clock + WAIT_FOR_INTERVAL
                 /\ waits' = waits + 1
                 /\ UNCHANGED << pc, todo, result, clicks >>
       ELSE /\ Return(got_fifty)
            /\ UNCHANGED << clock, waits, clicks >>
    /\ UNCHANGED << config, stop_event, pause_event, got_fifty, samples, stopAt >>

Controller == SetStop \/ SetPause \/ ClearPause

Worker ==
    \/ ZoomOut
    \/ HonourPause
    \/ CheckStop
    \/ Navigate
    \/ BeginDeploy
    \/ DeployClick
    \/ TroopClick
    \/ MonitorBegin
    \/ MonitorGuard
    \/ MonitorPause
    \/ \E visible \in BOOLEAN : MonitorSample(visible)
    \/ MonitorCheck
    \/ ExitClick
    \/ ReturnHomeBegin
    \/ \E found \in BOOLEAN : WaitFor(found)

NextAttack == Controller \/ Worker

SpecAttack == InitAttack /\ [][NextAttack]_vars

\* the worker thread keeps running: every step it can take, it takes
FairSpecAttack == SpecAttack /\ WF_vars(Worker)

\* ------------------------------------------------------------------------
\*  run_attacks: a batch of attacks sharing the two events
\* ------------------------------------------------------------------------

\* the configurations a batch is run with: every key set, a mandatory key
\* unset, and nothing but the mandatory keys
BatchConfigs ==
    { Config({}, "ok", "ok", 1, 0),
      Config({"find_match"}, "ok", "ok", 1, 0),
      Config(PositionKeys \ Mandatory, "unset", "unset", 0, 0) }

\* run_attacks(config, total, stop_event, pause_event, wall_enabled,
\*             wall_every, on_attack_done): the events may already be set
InitBatch ==
    /\ config \in BatchConfigs
    /\ stop_event \in BOOLEAN
    /\ pause_event \in BOOLEAN
    /\ pc = <<"done", "done">>
    /\ todo = <<>>
    /\ got_fifty = FALSE
    /\ result = "none"
    /\ clicks = <<>>
    /\ clock = 0
    /\ samples = 0
    /\ waits = 0
    /\ stopAt = NotStopped
    /\ EngineOff
    /\ calc = NoCalc
    /\ panel = NoPanel
    /\ \E total \in 0..MaxAttacks, we \in BOOLEAN, wv \in 1..2, cb \in BOOLEAN :
         batch = [ phase |-> "top", total |-> total, wall_enabled |-> we,
                   wall_every |-> wv, has_callback |-> cb, i |-> 1,
                   started |-> 0, reported |-> <<>>, wall_calls |-> 0,
                   wall_cycles |-> 0, wall_errors |-> 0 ]

BatchFrame ==
    UNCHANGED << config, stop_event, pause_event, pc, todo, got_fifty, result,
                 clicks, clock, samples, waits, stopAt, engineVars, calc, panel >>

\* the thread that owns the events sets or clears one between two attacks
BatchFlags ==
    /\ batch.phase \notin {"off", "attack", "returned"}
    /\ \/ ~stop_event /\ stop_event' = TRUE /\ UNCHANGED pause_event
       \/ pause_event' = ~pause_event /\ UNCHANGED stop_event
    /\ UNCHANGED << config, pc, todo, got_fifty, result, clicks, clock, samples,
                    waits, stopAt, engineVars, calc, panel, batch >>

\* for i in range(1, total + 1): if stop_event.is_set(): break
BatchTop ==
    /\ batch.phase = "top"
    /\ batch' = [batch EXCEPT !.phase =
                   IF batch.i > batch.total \/ stop_event THEN "returned" ELSE "pause"]
    /\ BatchFrame

\* while pause_event.is_set() and not stop_event.is_set(): time.sleep(0.2)
BatchPause ==
    /\ batch.phase = "pause"
    /\ batch' = [batch EXCEPT !.phase =
                   IF pause_event /\ ~stop_event THEN "pause" ELSE "check"]
    /\ BatchFrame

\* a batch that enters the next attack without the second look at the flag
BatchStart_IgnoresStop ==
    /\ batch.phase = "check"
    /\ batch' = [batch EXCEPT !.phase = "attack", !.started = @ + 1]
    /\ pc' = <<"zoom", "act">>
    /\ todo' = <<>>
    /\ got_fifty' = FALSE
    /\ result' = "running"
    /\ clicks' = <<>>
    /\ clock' = 0
    /\ samples' = 0
    /\ waits' = 0
    /\ stopAt' = NotStopped
    /\ UNCHANGED << config, stop_event, pause_event, engineVars, calc, panel >>

\* if stop_event.is_set(): break; else run_single_attack(...) is entered
BatchStart ==
    /\ batch.phase = "check"
    /\ IF stop_event
       THEN /\ batch' = [batch EXCEPT !.phase = "returned"]
            /\ BatchFrame
       ELSE /\ batch' = [batch EXCEPT !.phase = "attack", !.started = @ + 1]
            /\ pc' = <<"zoom", "act">>
            /\ todo' = <<>>
            /\ got_fifty' = FALSE
            /\ result' = "running"
            /\ clicks' = <<>>
            /\ clock' = 0
            /\ samples' = 0
            /\ waits' = 0
            /\ stopAt' = NotStopped
            /\ UNCHANGED << config, stop_event, pause_event, engineVars, calc, panel >>

\* a batch that reports an attack without waiting for it to return
BatchAttackDone_NoWait ==
    /\ batch.phase = "attack"
    /\ batch' = [batch EXCEPT
                   !.phase = "wall",
                   !.reported = IF batch.has_callback
                                THEN Append(@, <<batch.i, result = "True">>)
                                ELSE @]
    /\ BatchFrame

\* got_fifty = run_single_attack(...); if on_attack_done: on_attack_done(i, got_fifty)
BatchAttackDone ==
    /\ batch.phase = "attack"
    /\ pc[1] = "done"
    /\ batch' = [batch EXCEPT
                   !.phase = "wall",
                   !.reported = IF batch.has_callback
                                THEN Append(@, <<batch.i, result = "True">>)
                                ELSE @]
    /\ BatchFrame

\* the parameters of upgrade_walls_full_cycle in wall_upgrade.py
WALL_CYCLE_PARAMETERS == {"gold_walls", "elixir_walls"}

\* the keywords run_attacks passes to it
WALL_CALL_KEYWORDS == {"config", "log"}

\* a call with the given keywords: "ran" when the function takes them all
\* (the gold upgrade, then the elixir upgrade), else the TypeError that
\* Python raises before the body is entered
upgrade_walls_full_cycle(keywords) ==
    IF keywords \subseteq WALL_CYCLE_PARAMETERS THEN "ran" ELSE "TypeError"

\* the wall upgrade check: when it is due and the stop flag is not set,
\* upgrade_walls_full_cycle(config=config, log=log) is called inside try;
\* an exception is caught and logged
BatchWall ==
    /\ batch.phase = "wall"
    /\ IF batch.wall_enabled /\ batch.i % batch.wall_every = 0 /\ ~stop_event
       THEN LET went == upgrade_walls_full_cycle(WALL_CALL_KEYWORDS)
            IN  batch' = [batch EXCEPT
                            !.phase = "tail",
                            !.wall_calls = @ + 1,
                            !.wall_cycles = IF went = "ran" THEN @ + 1 ELSE @,
                            !.wall_errors = IF went = "ran" THEN @ ELSE @ + 1]
       ELSE batch' = [batch EXCEPT !.phase = "tail"]
    /\ BatchFrame

\* if stop_event.is_set(): break; time.sleep(2.0); next i
BatchTail ==
    /\ batch.phase = "tail"
    /\ batch' = IF stop_event
                THEN [batch EXCEPT !.phase = "returned"]
                ELSE [batch EXCEPT !.phase = "top", !.i = @ + 1]
    /\ BatchFrame

\* the steps of the thread that runs the batch
BatchWorker ==
    \/ BatchTop
    \/ BatchPause
    \/ BatchStart
    \/ BatchAttackDone
    \/ BatchWall
    \/ BatchTail
    \/ (batch.phase = "attack" /\ Worker)

NextBatch ==
    \/ BatchFlags
    \/ (batch.phase = "attack" /\ Controller)
    \/ BatchWorker

SpecBatch == InitBatch /\ [][NextBatch]_vars

\* the batch thread keeps running
FairSpecBatch == SpecBatch /\ WF_vars(BatchWorker)


\* ------------------------------------------------------------------------
\*  ScreenConfig
\* ------------------------------------------------------------------------

LEFT_LEFT    == <<181, 592>>
LEFT_BOTTOM  == <<823, 1075>>
LEFT_UP      == <<878, 70>>
RIGHT_UP     == <<1070, 60>>
RIGHT_RIGHT  == <<1787, 590>>
RIGHT_BOTTOM == <<1156, 1075>>

LEFT_EARTH   == <<635, 567>>
RIGHT_EARTH  == <<1245, 581>>
BUTTON_EARTH == <<951, 783>>

ATTACK_MENU_BUTTON == <<126, 1092>>
FIND_MATCH_BUTTON  == <<301, 847>>
ATTACK_BTN         == <<1646, 988>>
SURRENDER_BUTTON   == <<117, 1021>>
CONFIRM_OK_BUTTON  == <<1170, 763>>
RETURN_HOME_BUTTON == <<945, 1025>>

BUTTON_IMAGES ==
    [ valk        |-> "troop_valkyrie.png",
      siege       |-> "troop_siege.png",
      earthquake  |-> "spell_earthquake.png",
      hero_king   |-> "hero_king.png",
      hero_queen  |-> "hero_queen.png",
      hero_warden |-> "hero_warden.png",
      hero_champ  |-> "hero_champion.png",
      hero_minion |-> "hero_minion.png" ]

HERO_ORDER == <<"hero_king", "hero_queen", "hero_warden", "hero_champ", "hero_minion">>

HERO_SIDE ==
    [ hero_king   |-> "left",
      hero_queen  |-> "left",
      hero_warden |-> "left",
      hero_champ  |-> "right",
      hero_minion |-> "right" ]

BUTTON_FALLBACKS ==
    [ valk        |-> <<520, 1140>>,
      siege       |-> <<617, 1132>>,
      earthquake  |-> <<888, 1142>>,
      hero_king   |-> <<711, 1136>>,
      hero_queen  |-> <<783, 1136>>,
      hero_warden |-> <<868, 1145>>,
      hero_champ  |-> <<868, 1146>>,
      hero_minion |-> <<950, 1145>> ]

\* dict.get(key): the value, or None
Get(d, key) == IF key \in DOMAIN d THEN d[key] ELSE None

\* d[key] = value
Put(d, key, value) ==
    [k \in DOMAIN d \cup {key} |-> IF k = key THEN value ELSE d[k]]

\* d.setdefault(key, value): d afterwards
SetDefault(d, key, value) == IF key \in DOMAIN d THEN d ELSE Put(d, key, value)

\* isinstance(pos, (list, tuple)) and len(pos) == 2
IsPair(pos) == Len(pos) = 2

\* ------------------------------------------------------------------------
\*  core/location_cache.py
\* ------------------------------------------------------------------------

\* load_locations(): {} when the file is missing or is not a JSON object
load_locations(f) == IF f.kind = "json" THEN f.doc ELSE <<>>

\* save_locations(data): the file afterwards.  open(..., "w") may fail and
\* leave the file as it was; a write cut short leaves no JSON document
save_locations(f, data, written) ==
    CASE written = "ok"      -> [kind |-> "json", doc |-> data]
      [] written = "failed"  -> f
      [] written = "partial" -> [kind |-> "corrupt", doc |-> <<>>]

WriteOutcomes == {"ok", "failed", "partial"}

\* ------------------------------------------------------------------------
\*  ButtonDetector
\* ------------------------------------------------------------------------

\* what one pyautogui.locateOnScreen call yields: no box, a raised
\* exception, or the centre of the box found
NoBox == <<>>
Raised == <<-1>>

\* a retry loop that makes every attempt and keeps the last box found
DetectLoop_KeepsTrying(outs, i, tries) ==
    LET hits == {j \in i..tries : outs[j] # NoBox /\ outs[j] # Raised}
    IN  [detected |-> IF hits = {} THEN None
                      ELSE outs[CHOOSE j \in hits : \A h \in hits : h <= j],
         calls |-> tries]

\* the retry loop of locate, from attempt i: the centre detected (or None)
\* and the number of locateOnScreen calls made
RECURSIVE DetectLoop(_, _, _)
DetectLoop(outs, i, max_tries) ==
    IF i > max_tries THEN [detected |-> None, calls |-> max_tries]
    ELSE IF outs[i] = Raised THEN [detected |-> None, calls |-> i]
    ELSE IF outs[i] # NoBox THEN [detected |-> outs[i], calls |-> i]
    ELSE DetectLoop(outs, i + 1, max_tries)

\* locate without step 1: the cache is never consulted before detection
locate_NoCacheHit(key, outs, tries, cache, mode, f, imgs, written) ==
    LET cache1  == SetDefault(cache, "buttons", <<>>)
        buttons == cache1["buttons"]
        d       == DetectLoop(outs, 1, tries)
        cache2  == Put(cache1, "buttons", Put(buttons, key, d.detected))
    IN  IF key \notin DOMAIN BUTTON_IMAGES \/ key \notin imgs
        THEN [ret |-> Get(BUTTON_FALLBACKS, key), cache |-> cache1, file |-> f,
              calls |-> 0, detected |-> None, written |-> "none"]
        ELSE IF d.detected # None
        THEN [ret |-> d.detected, cache |-> cache2,
              file |-> save_locations(f, cache2, written),
              calls |-> d.calls, detected |-> d.detected, written |-> written]
        ELSE [ret |-> IF key \in DOMAIN buttons /\ IsPair(buttons[key])
                      THEN buttons[key] ELSE Get(BUTTON_FALLBACKS, key),
              cache |-> cache1, file |-> f, calls |-> d.calls, detected |-> None,
              written |-> "none"]

\* locate without step 3: a failed detection goes straight to the
\* hard-coded fallback
locate_NoStaleCache(key, outs, tries, cache, mode, f, imgs, written) ==
    LET cache1  == SetDefault(cache, "buttons", <<>>)
        buttons == cache1["buttons"]
        d       == DetectLoop(outs, 1, tries)
        cache2  == Put(cache1, "buttons", Put(buttons, key, d.detected))
        keep(value, n) ==
            [ret |-> value, cache |-> cache1, file |-> f, calls |-> n, detected |-> None,
             written |-> "none"]
    IN  IF mode = "use" /\ key \in DOMAIN buttons /\ IsPair(buttons[key])
        THEN keep(buttons[key], 0)
        ELSE IF key \notin DOMAIN BUTTON_IMAGES \/ key \notin imgs
        THEN keep(Get(BUTTON_FALLBACKS, key), 0)
        ELSE IF d.detected # None
        THEN [ret |-> d.detected, cache |-> cache2,
              file |-> save_locations(f, cache2, written),
              calls |-> d.calls, detected |-> d.detected, written |-> written]
        ELSE keep(Get(BUTTON_FALLBACKS, key), d.calls)

\* locate that records what it returns on the fallback path: the hard-coded
\* coordinate is stored under the key and the cache is saved
locate_CachesFallback(key, outs, tries, cache, mode, f, imgs, written) ==
    LET cache1  == SetDefault(cache, "buttons", <<>>)
        buttons == cache1["buttons"]
        d       == DetectLoop(outs, 1, tries)
        store(value, n, found) ==
            LET cache2 == Put(cache1, "buttons", Put(buttons, key, value))
            IN  [ret |-> value, cache |-> cache2,
                 file |-> save_locations(f, cache2, written),
                 calls |-> n, detected |-> found, written |-> written]
        keep(value, n) ==
            [ret |-> value, cache |-> cache1, file |-> f, calls |-> n, detected |-> None,
             written |-> "none"]
    IN  IF mode = "use" /\ key \in DOMAIN buttons /\ IsPair(buttons[key])
        THEN keep(buttons[key], 0)
        ELSE IF key \notin DOMAIN BUTTON_IMAGES
        THEN keep(None, 0)
        ELSE IF key \notin imgs
        THEN keep(Get(BUTTON_FALLBACKS, key), 0)
        ELSE IF d.detected # None
        THEN store(d.detected, d.calls, d.detected)
        ELSE IF key \in DOMAIN buttons /\ IsPair(buttons[key])
        THEN keep(buttons[key], d.calls)
        ELSE store(Get(BUTTON_FALLBACKS, key), d.calls, None)

\* locate without the save_cache() call: a detected coordinate is stored in
\* memory only (write-back)
locate_NoSave(key, outs, tries, cache, mode, f, imgs, written) ==
    LET cache1  == SetDefault(cache, "buttons", <<>>)
        buttons == cache1["buttons"]
        d       == DetectLoop(outs, 1, tries)
        keep(value, n) ==
            [ret |-> value, cache |-> cache1, file |-> f, calls |-> n, detected |-> None,
             written |-> "none"]
    IN  IF mode = "use" /\ key \in DOMAIN buttons /\ IsPair(buttons[key])
        THEN keep(buttons[key], 0)
        ELSE IF key \notin DOMAIN BUTTON_IMAGES
        THEN keep(None, 0)
        ELSE IF key \notin imgs
        THEN keep(Get(BUTTON_FALLBACKS, key), 0)
        ELSE IF d.detected # None
        THEN [ret |-> d.detected,
              cache |-> Put(cache1, "buttons", Put(buttons, key, d.detected)),
              file |-> f, calls |-> d.calls, detected |-> d.detected,
              written |-> written]
        ELSE IF key \in DOMAIN buttons /\ IsPair(buttons[key])
        THEN keep(buttons[key], d.calls)
        ELSE keep(Get(BUTTON_FALLBACKS, key), d.calls)

\* a locate without the hard-coded fallback after a failed detection
locate_NoFallbackTable(key, outs, tries, cache, mode, f, imgs, written) ==
    LET cache1  == SetDefault(cache, "buttons", <<>>)
        buttons == cache1["buttons"]
        unchanged(value) ==
            [ret |-> value, cache |-> cache1, file |-> f, calls |-> 0, detected |-> None, written |-> "none"]
    IN  IF mode = "use" /\ key \in DOMAIN buttons /\ IsPair(buttons[key])
        THEN unchanged(buttons[key])                              \* 1) cache hit
        ELSE IF key \notin DOMAIN BUTTON_IMAGES
        THEN unchanged(None)
        ELSE IF key \notin imgs
        THEN unchanged(Get(BUTTON_FALLBACKS, key))
        ELSE LET d == DetectLoop(outs, 1, tries)               \* 2) detection
             IN  IF d.detected # None
                 THEN LET cache2 == Put(cache1, "buttons", Put(buttons, key, d.detected))
                      IN  [ ret   |-> d.detected,
                            cache |-> cache2,
                            file  |-> save_locations(f, cache2, written),
                            calls |-> d.calls,
                            detected |-> d.detected,
                            written  |-> written ]
                 ELSE IF key \in DOMAIN buttons /\ IsPair(buttons[key])
                 THEN [unchanged(buttons[key]) EXCEPT !.calls = d.calls]   \* 3) stale
                 ELSE [unchanged(None) EXCEPT !.calls = d.calls]

\* ButtonDetector.locate(key, max_tries=...) on a detector whose cache is
\* `cache`: the value returned, the cache and the file afterwards, and the
\* locateOnScreen calls made, with the local `detected`.  outs[i] is what
\* the i-th call would yield.
locate(key, outs, tries, cache, mode, f, imgs, written) ==
    LET cache1  == SetDefault(cache, "buttons", <<>>)
        buttons == cache1["buttons"]
        unchanged(value) ==
            [ret |-> value, cache |-> cache1, file |-> f, calls |-> 0, detected |-> None, written |-> "none"]
    IN  IF mode = "use" /\ key \in DOMAIN buttons /\ IsPair(buttons[key])
        THEN unchanged(buttons[key])                              \* 1) cache hit
        ELSE IF key \notin DOMAIN BUTTON_IMAGES
        THEN unchanged(None)
        ELSE IF key \notin imgs
        THEN unchanged(Get(BUTTON_FALLBACKS, key))
        ELSE LET d == DetectLoop(outs, 1, tries)               \* 2) detection
             IN  IF d.detected # None
                 THEN LET cache2 == Put(cache1, "buttons", Put(buttons, key, d.detected))
                      IN  [ ret   |-> d.detected,
                            cache |-> cache2,
                            file  |-> save_locations(f, cache2, written),
                            calls |-> d.calls,
                            detected |-> d.detected,
                            written  |-> written ]
                 ELSE IF key \in DOMAIN buttons /\ IsPair(buttons[key])
                 THEN [unchanged(buttons[key]) EXCEPT !.calls = d.calls]   \* 3) stale
                 ELSE [unchanged(Get(BUTTON_FALLBACKS, key))
                          EXCEPT !.calls = d.calls]                        \* 4) fallback

\* bool(x) of a dict, a list or None
Truthy(x) == x # <<>>

\* ButtonDetector.load_cache(): the cache afterwards
load_cache(f) ==
    SetDefault(SetDefault(load_locations(f), "buttons", <<>>), "valk_positions", None)

\* ButtonDetector.ask_cache_mode(): the mode afterwards; choice is the
\* line typed at the prompt, stripped and lower-cased
ask_cache_mode(cache, choice) ==
    LET has_data == Truthy(Get(cache, "buttons")) \/ Truthy(Get(cache, "valk_positions"))
    IN  IF ~has_data THEN "update"
        ELSE IF choice = "y" THEN "use" ELSE "update"

\* ButtonDetector.locate_return_home(): None without the image or when
\* locateOnScreen raises, else the box found (given by its centre)
locate_return_home(ok, box) ==
    IF ~ok THEN None
    ELSE IF box = Raised THEN None
    ELSE box

\* ButtonDetector.valk_positions (getter)
valk_positions(cache) ==
    LET raw == Get(cache, "valk_positions")
    IN  IF Truthy(raw) /\ \A i \in 1..Len(raw) : IsPair(raw[i]) THEN raw ELSE None

\* ------------------------------------------------------------------------
\*  The ButtonDetector used on its own: any sequence of calls of its
\*  public methods, over the cache files and screens below
\* ------------------------------------------------------------------------

max_tries == 5

\* the keys looked up: two bar buttons and one key without an image mapping
ProbeKeys == {"valk", "hero_champ", "wall"}

\* where the template of a key can be found on the bar
SeenAt(key) == <<BUTTON_FALLBACKS[key][1] + 4, BUTTON_FALLBACKS[key][2] - 2>>

Seen(key) == IF key \in DOMAIN BUTTON_IMAGES THEN {SeenAt(key)} ELSE {}

\* what the calls of locateOnScreen made by one locate can yield: nothing on
\* every attempt, or nothing n times and then a box or an exception
Screens(key) ==
    {Rep(NoBox, max_tries)} \cup
    {Rep(NoBox, n) \o <<o>> : n \in 0..(max_tries - 1), o \in {Raised} \cup Seen(key)}

Json(doc) == [kind |-> "json", doc |-> doc]

OneButton(key, pos) == [k \in {key} |-> pos]

\* the cache files found at start-up
Files ==
    { NoFile,
      [kind |-> "corrupt", doc |-> <<>>],
      Json(<<>>),
      Json([buttons |-> OneButton("valk", <<500, 1100>>), valk_positions |-> None]),
      Json([buttons |-> OneButton("valk", <<0>>)]),
      Json([buttons |-> OneButton("wall", <<7, 7>>)]),
      Json([buttons |-> OneButton("hero_champ", <<860, 1150>>)]),
      Json([buttons |-> <<>>, valk_positions |-> <<LEFT_BOTTOM, LEFT_LEFT>>]),
      Json([valk_positions |-> <<(<<1>>)>>]) }

ImageSets == {DOMAIN BUTTON_IMAGES, DOMAIN BUTTON_IMAGES \ {"hero_champ"}}

ValkLists == {<<RIGHT_UP, RIGHT_RIGHT>>}

\* the call just made: its name, its key, the local `detected` of locate and
\* the outcome of the write of the cache file it made ("none": no write)
Called(op, key, detected, written) ==
    [op |-> op, key |-> key, detected |-> detected, written |-> written]

SessionOff ==
    /\ num_heroes = 0
    /\ epc = <<"off", 0>>
    /\ eclicks = <<>>
    /\ eclock = 0
    /\ shot = NoShot
    /\ outcome = "none"
    /\ hero_buttons = <<>>
    /\ bar = {}

AttackOff ==
    /\ config = <<>>
    /\ stop_event = FALSE
    /\ pause_event = FALSE
    /\ pc = <<"off", "off">>
    /\ todo = <<>>
    /\ got_fifty = FALSE
    /\ result = "off"
    /\ clicks = <<>>
    /\ clock = 0
    /\ samples = 0
    /\ waits = 0
    /\ stopAt = NotStopped

\* ButtonDetector(img_dir, cache_mode)
InitResolver ==
    /\ file \in Files
    /\ images \in ImageSets
    /\ _cache = <<>>
    /\ _cache_mode \in {"use", "update"}
    /\ _return_home_ok \in BOOLEAN
    /\ call = NoCall
    /\ ret = None
    /\ detect_calls = 0
    /\ SessionOff
    /\ AttackOff
    /\ calc = NoCalc
    /\ batch = NoBatch
    /\ panel = NoPanel

LoadCache ==
    /\ call' = Called("load_cache", "", None, "none")
    /\ _cache' = load_cache(file)
    /\ ret' = None
    /\ detect_calls' = 0
    /\ UNCHANGED <<file, images, _cache_mode, _return_home_ok>>
    /\ UNCHANGED <<sessionVars, attackVars, calc, batch, panel>>

SaveCache(written) ==
    /\ call' = Called("save_cache", "", None, written)
    /\ file' = save_locations(file, _cache, written)
    /\ ret' = None
    /\ detect_calls' = 0
    /\ UNCHANGED <<_cache, images, _cache_mode, _return_home_ok>>
    /\ UNCHANGED <<sessionVars, attackVars, calc, batch, panel>>

AskCacheMode(choice) ==
    /\ call' = Called("ask_cache_mode", "", None, "none")
    /\ _cache_mode' = ask_cache_mode(_cache, choice)
    /\ ret' = None
    /\ detect_calls' = 0
    /\ UNCHANGED <<file, _cache, images, _return_home_ok>>
    /\ UNCHANGED <<sessionVars, attackVars, calc, batch, panel>>

Locate(key, outs, written) ==
    LET r == locate(key, outs, max_tries, _cache, _cache_mode, file, images, written)
    IN  /\ call' = Called("locate", key, r.detected, r.written)
        /\ ret' = r.ret
        /\ _cache' = r.cache
        /\ file' = r.file
        /\ detect_calls' = r.calls
        /\ UNCHANGED <<images, _cache_mode, _return_home_ok>>
        /\ UNCHANGED <<sessionVars, attackVars, calc, batch, panel>>

LocateReturnHome(box) ==
    /\ call' = Called("locate_return_home", "", None, "none")
    /\ ret' = locate_return_home(_return_home_ok, box)
    /\ detect_calls' = IF _return_home_ok THEN 1 ELSE 0
    /\ UNCHANGED <<file, _cache, images, _cache_mode, _return_home_ok>>
    /\ UNCHANGED <<sessionVars, attackVars, calc, batch, panel>>

GetValkPositions ==
    /\ call' = Called("valk_positions", "", None, "none")
    /\ ret' = valk_positions(_cache)
    /\ detect_calls' = 0
    /\ UNCHANGED <<file, _cache, images, _cache_mode, _return_home_ok>>
    /\ UNCHANGED <<sessionVars, attackVars, calc, batch, panel>>

SetValkPositions(positions, written) ==
    LET cache1 == Put(_cache, "valk_positions", positions)
    IN  /\ call' = Called("valk_positions.setter", "", None, written)
        /\ _cache' = cache1
        /\ file' = save_locations(file, cache1, written)
        /\ ret' = None
        /\ detect_calls' = 0
        /\ UNCHANGED <<images, _cache_mode, _return_home_ok>>
        /\ UNCHANGED <<sessionVars, attackVars, calc, batch, panel>>

NextResolver ==
    \/ LoadCache
    \/ \E written \in WriteOutcomes : SaveCache(written)
    \/ \E choice \in {"y", "n"} : AskCacheMode(choice)
    \/ \E key \in ProbeKeys, written \in WriteOutcomes :
          \E outs \in Screens(key) : Locate(key, outs, written)
    \/ \E box \in {NoBox, Raised, RETURN_HOME_BUTTON} : LocateReturnHome(box)
    \/ GetValkPositions
    \/ \E positions \in ValkLists, written \in WriteOutcomes :
          SetValkPositions(positions, written)

SpecResolver == InitResolver /\ [][NextResolver]_vars

\* ------------------------------------------------------------------------
\*  TroopDeployer
\* ------------------------------------------------------------------------

\* int(round(a / b)) for a >= 0, b > 0: round() takes ties to the even integer
RoundDiv(a, b) ==
    LET q == a \div b
        r == a % b
    IN  IF 2 * r < b THEN q
        ELSE IF 2 * r > b THEN q + 1
        ELSE IF q % 2 = 0 THEN q ELSE q + 1

\* lerp of _generate_valk_positions
lerp(start, end, n) ==
    IF n <= 1 THEN <<start>>
    ELSE [i \in 1..n |->
            << RoundDiv(start[1] * (n - 1) + (end[1] - start[1]) * (i - 1), n - 1),
               RoundDiv(start[2] * (n - 1) + (end[2] - start[2]) * (i - 1), n - 1) >>]

\* generate_points_on_segment of auto_attack.py
generate_points_on_segment(start, end, num_points) ==
    IF num_points <= 1 THEN <<start>>
    ELSE [i \in 1..num_points |->
            << RoundDiv(start[1] * (num_points - 1) + (end[1] - start[1]) * (i - 1),
                        num_points - 1),
               RoundDiv(start[2] * (num_points - 1) + (end[2] - start[2]) * (i - 1),
                        num_points - 1) >>]

\* a chaining loop that keeps the first point of every segment
path_points_KeepsJoins(routine, segments, counts) ==
    LET pts(idx) ==
            IF routine = "lerp"
            THEN lerp(segments[idx][1], segments[idx][2], counts[idx])
            ELSE generate_points_on_segment(segments[idx][1], segments[idx][2], counts[idx])
    IN  Flatten([idx \in 1..Len(segments) |-> pts(idx)])

\* the loop over the segments shared by _generate_valk_positions (which
\* interpolates with lerp) and generate_valk_positions_raw (with
\* generate_points_on_segment): the points of each segment, without the
\* first one for every segment after the first
path_points(routine, segments, counts) ==
    LET pts(idx) ==
            IF routine = "lerp"
            THEN lerp(segments[idx][1], segments[idx][2], counts[idx])
            ELSE generate_points_on_segment(segments[idx][1], segments[idx][2], counts[idx])
    IN  Flatten([idx \in 1..Len(segments) |->
                    IF idx > 1 THEN Tail(pts(idx)) ELSE pts(idx)])

_generate_valk_positions ==
    LET segments == << <<LEFT_BOTTOM, LEFT_LEFT>>, <<LEFT_LEFT, LEFT_UP>>,
                       <<RIGHT_UP, RIGHT_RIGHT>>, <<RIGHT_RIGHT, RIGHT_BOTTOM>> >>
        counts   == <<12, 11, 11, 11>>
    IN  path_points("lerp", segments, counts)

\* generate_valk_positions_raw of auto_attack.py
generate_valk_positions_raw ==
    LET segments == << <<LEFT_BOTTOM, LEFT_LEFT>>, <<LEFT_LEFT, LEFT_UP>>,
                       <<RIGHT_UP, RIGHT_RIGHT>>, <<RIGHT_RIGHT, RIGHT_BOTTOM>> >>
        seg_point_counts == <<12, 11, 11, 11>>
    IN  path_points("generate_points_on_segment", segments, seg_point_counts)

\* deploy_valkyries(count=42)
VALK_COUNT == 42

left_mid ==
    << (LEFT_LEFT[1] + LEFT_BOTTOM[1]) \div 2, (LEFT_LEFT[2] + LEFT_BOTTOM[2]) \div 2 >>

right_mid ==
    << (RIGHT_RIGHT[1] + RIGHT_BOTTOM[1]) \div 2, (RIGHT_RIGHT[2] + RIGHT_BOTTOM[2]) \div 2 >>

\* max(0, min(4, num_heroes))
ClampHeroes(n) == IF n < 0 THEN 0 ELSE Min(4, n)

\* ------------------------------------------------------------------------
\*  BattleController
\* ------------------------------------------------------------------------

click_attack_and_find_match ==
    << Click("attack_menu", ATTACK_MENU_BUTTON),
       Click("find_match", FIND_MATCH_BUTTON),
       Click("attack_btn", ATTACK_BTN) >>

\* one pass of the loop of wait_for_battle_end with the return-home box
\* tested before the 50 % status
battle_tick_ReturnHomeFirst(fifty, box) ==
    IF box # None
    THEN [result |-> "return_home", click |-> <<Click("return_home_detected", box)>>]
    ELSE IF fifty THEN [result |-> "50%", click |-> <<>>]
    ELSE [result |-> "none", click |-> <<>>]

\* one pass of the loop of wait_for_battle_end: fifty is
\* get_game_status().get("fifty_percent"), box what locate_return_home
\* would return; the result ("none" to go on polling) and the click made
battle_tick(fifty, box) ==
    IF fifty THEN [result |-> "50%", click |-> <<>>]
    ELSE IF box # None
    THEN [result |-> "return_home", click |-> <<Click("return_home_detected", box)>>]
    ELSE [result |-> "none", click |-> <<>>]

surrender_and_return_home ==
    << Click("surrender", SURRENDER_BUTTON),
       Click("confirm_ok", CONFIRM_OK_BUTTON),
       Click("return_home", RETURN_HOME_BUTTON) >>

\* ------------------------------------------------------------------------
\*  AttackSession: __init__, the detector set up by the caller, then run()
\* ------------------------------------------------------------------------

\* polls of wait_for_base / wait_for_battle_end that fit into their timeout
BaseWaitPolls == 2
BattleWaitPolls == 3

SessionFiles ==
    { NoFile,
      Json([buttons |-> OneButton("valk", <<500, 1100>>),
            valk_positions |-> <<LEFT_BOTTOM, LEFT_LEFT>>]) }

Bars == {DOMAIN BUTTON_IMAGES, DOMAIN BUTTON_IMAGES \ {"hero_queen", "siege"}, {}}

\* AttackSession(img_dir, cache_mode, num_heroes)
InitSession ==
    /\ file \in SessionFiles
    /\ images \in ImageSets
    /\ _cache = <<>>
    /\ _cache_mode \in {"use", "update"}
    /\ _return_home_ok \in BOOLEAN
    /\ call = NoCall
    /\ ret = None
    /\ detect_calls = 0
    /\ num_heroes \in {ClampHeroes(n) : n \in -1..5}
    /\ epc = <<"new", 0>>
    /\ eclicks = <<>>
    /\ eclock = 0
    /\ shot = NoShot
    /\ outcome = "none"
    /\ hero_buttons = <<>>
    /\ bar \in Bars
    /\ AttackOff
    /\ calc = NoCalc
    /\ batch = NoBatch
    /\ panel = NoPanel

\* what locateOnScreen yields for key while the bar stays as it is
BarScreen(key) == IF key \in bar THEN <<SeenAt(key)>> ELSE Rep(NoBox, max_tries)

\* self._detector.locate(key) called from the deployer: the detector
\* afterwards; r is the result of locate
Located(key, r) ==
    /\ call' = Called("locate", key, r.detected, r.written)
    /\ ret' = r.ret
    /\ _cache' = r.cache
    /\ file' = r.file
    /\ detect_calls' = r.calls
    /\ UNCHANGED <<images, _cache_mode, _return_home_ok>>

SessionFrame == UNCHANGED <<num_heroes, bar, shot, outcome, attackVars, calc, batch, panel>>

\* session.detector.load_cache() before run()
SessionLoadCache == epc[1] = "new" /\ LoadCache

\* session.detector.ask_cache_mode() before run()
SessionAskCacheMode(choice) == epc[1] = "new" /\ AskCacheMode(choice)

\* run(): scroll_out, click_attack_and_find_match, then wait_for_base starts
RunBegin ==
    /\ epc[1] = "new"
    /\ eclicks' = eclicks \o click_attack_and_find_match
    /\ epc' = <<"wait_base", 0>>
    /\ eclock' = 0
    /\ UNCHANGED <<detectorVars, hero_buttons>>
    /\ SessionFrame

\* one pass of the loop of wait_for_base
WaitForBase(next_button) ==
    /\ epc[1] = "wait_base"
    /\ eclock < BaseWaitPolls
    /\ IF next_button
       THEN epc' = <<"earthquakes", 0>> /\ eclock' = 0
       ELSE epc' = epc /\ eclock' = eclock + 1
    /\ UNCHANGED <<detectorVars, eclicks, hero_buttons>>
    /\ SessionFrame

\* wait_for_base returns False: run() proceeds anyway
BaseTimedOut ==
    /\ epc[1] = "wait_base"
    /\ eclock >= BaseWaitPolls
    /\ epc' = <<"earthquakes", 0>>
    /\ eclock' = 0
    /\ UNCHANGED <<detectorVars, eclicks, hero_buttons>>
    /\ SessionFrame

cast_earthquakes(btn) ==
    IF btn = None THEN <<>>
    ELSE <<Click("earthquake", btn)>> \o Rep(Click("quake", LEFT_EARTH), 3)
            \o Rep(Click("quake", RIGHT_EARTH), 4) \o Rep(Click("quake", BUTTON_EARTH), 4)

CastEarthquakes(written) ==
    LET r == locate("earthquake", BarScreen("earthquake"), max_tries,
                    _cache, _cache_mode, file, images, written)
    IN  /\ epc[1] = "earthquakes"
        /\ Located("earthquake", r)
        /\ eclicks' = eclicks \o cast_earthquakes(r.ret)
        /\ epc' = <<"siege", 0>>
        /\ UNCHANGED <<eclock, hero_buttons>>
        /\ SessionFrame

deploy_siege_machine(btn) ==
    IF btn = None THEN <<>>
    ELSE <<Click("siege", btn), Click("siege_drop", LEFT_LEFT)>>

DeploySiegeMachine(written) ==
    LET r == locate("siege", BarScreen("siege"), max_tries,
                    _cache, _cache_mode, file, images, written)
    IN  /\ epc[1] = "siege"
        /\ Located("siege", r)
        /\ eclicks' = eclicks \o deploy_siege_machine(r.ret)
        /\ epc' = <<"valks", 0>>
        /\ UNCHANGED <<eclock, hero_buttons>>
        /\ SessionFrame

\* TroopDeployer.get_valk_positions(): the positions returned, the cache
\* and the file afterwards
get_valk_positions(cache, mode, f, written) ==
    LET cached == valk_positions(cache)
        cache1 == Put(cache, "valk_positions", _generate_valk_positions)
    IN  IF mode = "use" /\ Truthy(cached)
        THEN [positions |-> cached, cache |-> cache, file |-> f, saved |-> FALSE]
        ELSE [positions |-> _generate_valk_positions, cache |-> cache1,
              file |-> save_locations(f, cache1, written), saved |-> TRUE]

\* the clicks of deploy_valkyries(count) once the button is located
deploy_valkyries(btn, positions, count) ==
    <<Click("valk", btn)>> \o
    [i \in 1..Min(count, Len(positions)) |-> Click("valk_drop", positions[i])]

DeployValkyries(written, written2) ==
    LET r == locate("valk", BarScreen("valk"), max_tries,
                    _cache, _cache_mode, file, images, written)
        g == get_valk_positions(r.cache, _cache_mode, r.file, written2)
    IN  /\ epc[1] = "valks"
        /\ IF r.ret = None
           THEN /\ Located("valk", r)
                /\ eclicks' = eclicks
           ELSE /\ call' = Called(IF g.saved THEN "valk_positions.setter"
                                             ELSE "valk_positions", "", None,
                                  IF g.saved THEN written2 ELSE "none")
                /\ ret' = IF g.saved THEN None ELSE g.positions
                /\ _cache' = g.cache
                /\ file' = g.file
                /\ detect_calls' = 0
                /\ UNCHANGED <<images, _cache_mode, _return_home_ok>>
                /\ eclicks' = eclicks \o deploy_valkyries(r.ret, g.positions, VALK_COUNT)
        /\ epc' = IF num_heroes = 0 THEN <<"monitor", 0>> ELSE <<"heroes", 1>>
        /\ UNCHANGED <<eclock, hero_buttons>>
        /\ SessionFrame

\* one pass of the loop of deploy_heroes, for the i-th active hero
deploy_hero(key, btn) ==
    IF btn = None THEN <<>>
    ELSE << Click(key, btn),
            Click("hero_drop", IF Get(HERO_SIDE, key) = "left" THEN left_mid ELSE right_mid) >>

\* a deploy_heroes that clamps at the length of HERO_ORDER, not at 4
deploy_heroes_AllFive(asked, found) ==
    LET n == IF asked < 0 THEN 0 ELSE Min(Len(HERO_ORDER), asked)
    IN  Flatten([i \in 1..n |-> deploy_hero(HERO_ORDER[i], found[HERO_ORDER[i]])])

\* the clicks of deploy_heroes(num_heroes=asked) when locate(key) yields
\* found[key]
deploy_heroes(asked, found) ==
    LET n == ClampHeroes(asked)
    IN  Flatten([i \in 1..n |-> deploy_hero(HERO_ORDER[i], found[HERO_ORDER[i]])])

DeployHero(written) ==
    LET i   == epc[2]
        key == HERO_ORDER[i]
        r   == locate(key, BarScreen(key), max_tries,
                      _cache, _cache_mode, file, images, written)
    IN  /\ epc[1] = "heroes"
        /\ Located(key, r)
        /\ eclicks' = eclicks \o deploy_hero(key, r.ret)
        /\ epc' = IF i < num_heroes THEN <<"heroes", i + 1>> ELSE <<"abilities", 1>>
        /\ UNCHANGED <<eclock, hero_buttons>>
        /\ SessionFrame

\* the game redraws the bar once the heroes are on the field, while
\* activate_hero_abilities sleeps delay_before: other templates match
BarChanges ==
    /\ epc = <<"abilities", 1>>
    /\ hero_buttons = <<>>
    /\ call.op # "redraw"
    /\ bar' \in Bars \ {bar}
    /\ call' = Called("redraw", "", None, "none")
    /\ UNCHANGED <<file, images, _cache, _cache_mode, _return_home_ok, ret, detect_calls>>
    /\ UNCHANGED <<num_heroes, epc, eclicks, eclock, shot, outcome, hero_buttons>>
    /\ UNCHANGED <<attackVars, calc, batch, panel>>

\* activate_hero_abilities: buttons = [locate(k) for k in keys], one key
LocateAbility(written) ==
    LET i   == epc[2]
        key == HERO_ORDER[i]
        r   == locate(key, BarScreen(key), max_tries,
                      _cache, _cache_mode, file, images, written)
    IN  /\ epc[1] = "abilities"
        /\ Located(key, r)
        /\ hero_buttons' = Append(hero_buttons, r.ret)
        /\ epc' = IF i < num_heroes THEN <<"abilities", i + 1>> ELSE <<"ability_clicks", 0>>
        /\ UNCHANGED <<eclock, eclicks>>
        /\ SessionFrame

RECURSIVE ability_clicks(_)
ability_clicks(buttons) ==
    IF buttons = <<>> THEN <<>>
    ELSE (IF Head(buttons) = None THEN <<>> ELSE <<Click("ability", Head(buttons))>>)
         \o ability_clicks(Tail(buttons))

\* activate_hero_abilities: the clicks after the lookups; wait_for_battle_end
\* starts next
ActivateHeroAbilities ==
    /\ epc[1] = "ability_clicks"
    /\ eclicks' = eclicks \o ability_clicks(hero_buttons)
    /\ hero_buttons' = <<>>
    /\ epc' = <<"monitor", 0>>
    /\ eclock' = 0
    /\ UNCHANGED detectorVars
    /\ SessionFrame

\* clicks of run() after wait_for_battle_end returned, with the
\* surrender flow run after every result
ExitClicks_Always(battle_status) == surrender_and_return_home

\* clicks of run() after wait_for_battle_end returned battle_status
ExitClicks(battle_status) ==
    IF battle_status \in {"50%", "timeout"} THEN surrender_and_return_home ELSE <<>>

\* one pass of the loop of wait_for_battle_end; on a result, run() goes on
\* to its end.  rh is the Return Home button shown on the screen, or None
WaitForBattleEnd(fifty, rh) ==
    LET t == battle_tick(fifty, locate_return_home(_return_home_ok, rh))
    IN  /\ epc[1] = "monitor"
        /\ eclock < BattleWaitPolls
        /\ shot' = [fifty_percent |-> fifty, return_home |-> rh \notin {None, Raised}]
        /\ IF t.result = "none"
           THEN /\ eclock' = eclock + 1
                /\ UNCHANGED <<outcome, eclicks, epc>>
           ELSE /\ outcome' = t.result
                /\ eclicks' = eclicks \o t.click \o ExitClicks(t.result)
                /\ epc' = <<"finished", 0>>
                /\ eclock' = eclock
        /\ UNCHANGED <<detectorVars, hero_buttons, num_heroes, bar, attackVars, calc, batch, panel>>

\* wait_for_battle_end returns "timeout"; run() goes on to its end
BattleTimedOut ==
    /\ epc[1] = "monitor"
    /\ eclock >= BattleWaitPolls
    /\ outcome' = "timeout"
    /\ eclicks' = eclicks \o ExitClicks("timeout")
    /\ epc' = <<"finished", 0>>
    /\ UNCHANGED <<detectorVars, hero_buttons, num_heroes, bar, attackVars, calc, batch, panel, shot, eclock>>

NextSession ==
    \/ SessionLoadCache
    \/ \E choice \in {"y", "n"} : SessionAskCacheMode(choice)
    \/ RunBegin
    \/ \E next_button \in BOOLEAN : WaitForBase(next_button)
    \/ BaseTimedOut
    \/ \E written \in WriteOutcomes : CastEarthquakes(written)
    \/ \E written \in WriteOutcomes : DeploySiegeMachine(written)
    \/ \E written, written2 \in WriteOutcomes : DeployValkyries(written, written2)
    \/ \E written \in WriteOutcomes : DeployHero(written)
    \/ BarChanges
    \/ \E written \in WriteOutcomes : LocateAbility(written)
    \/ ActivateHeroAbilities
    \/ \E fifty \in BOOLEAN, rh \in {None, Raised, RETURN_HOME_BUTTON} :
          WaitForBattleEnd(fifty, rh)
    \/ BattleTimedOut

SpecSession == InitSession /\ [][NextSession]_vars

\* ------------------------------------------------------------------------
\*  An attack made by either implementation: run_single_attack under its
\*  controller, or AttackSession.run
\* ------------------------------------------------------------------------

SpecRuns == (InitAttack \/ InitSession) /\ [][NextAttack \/ NextSession]_vars

\* ------------------------------------------------------------------------
\*  The routines that only compute a value, each called once on arguments
\*  drawn from the sets below
\* ------------------------------------------------------------------------

MaxTotal  == 12   \* spell_count / troop_count go up to this
MaxGroups == 4    \* targets or sides
MaxCoord  == 4    \* screen coordinates go up to this
MaxSegments == 3  \* segments of a chained path
MaxCount  == 4    \* points asked of an interpolation

Points == (0..MaxCoord) \X (0..MaxCoord)

\* what the max_tries calls of locateOnScreen would yield, one by one
Attempts == [1..max_tries -> {NoBox, Raised, SeenAt("valk")}]

CalcCaches == {<<>>, [buttons |-> OneButton("valk", <<500, 1100>>)]}

Interpolations == {"_interpolate_positions", "lerp", "generate_points_on_segment"}

\* the corners a path is drawn between, and the paths of up to MaxSegments
\* segments with their per-segment counts
Corners == {<<0, 0>>, <<MaxCoord, 2>>}

PathInputs ==
    UNION { [segments : [1..n -> Corners \X Corners], counts : [1..n -> 2..MaxCount],
             routine : {"lerp", "generate_points_on_segment"}] : n \in 1..MaxSegments }

Pending(fn, args) == [fn |-> fn, args |-> args, out |-> <<>>, done |-> FALSE]

\* ------------------------------------------------------------------------
\*  core/config.py
\* ------------------------------------------------------------------------

\* the keys of POSITION_SCHEMA, all groups together
POSITION_SCHEMA ==
    { "attack_menu", "find_match", "confirm_attack", "surrender", "confirm_ok",
      "troop", "spell", "siege", "hero_1", "hero_2", "hero_3", "hero_4", "hero_5",
      "deploy_left_up", "deploy_left_left", "deploy_left_bottom",
      "deploy_right_up", "deploy_right_right", "deploy_right_bottom",
      "spell_target_left", "spell_target_right",
      "wall_upgradable", "wall_select_multi", "wall_gold", "wall_elixir", "wall_ok" }

\* the keys of TEMPLATE_SCHEMA
TEMPLATE_SCHEMA == { "next_button", "return_home", "fifty_percent" }

\* every position None, every template unset, and no other section
default_config ==
    [ positions |-> [k \in POSITION_SCHEMA |-> None],
      templates |-> [k \in TEMPLATE_SCHEMA |-> "unset"] ]

\* save_config: json.dump of the whole mapping into config.json
save_config(cfg) == Json(cfg)

\* load_config: the defaults, with the value of the file for every key of
\* the two sections that the defaults have; a file that is missing or does
\* not parse leaves the defaults
load_config(f) ==
    IF f.kind # "json" THEN default_config
    ELSE LET saved == f.doc
             merged(section) ==
                 [k \in DOMAIN default_config[section] |->
                    IF section \in DOMAIN saved /\ k \in DOMAIN saved[section]
                    THEN saved[section][k]
                    ELSE default_config[section][k]]
         IN  [ positions |-> merged("positions"), templates |-> merged("templates") ]

\* spell_count and troop_count when the mapping has no "settings"
DEFAULT_SPELL_COUNT == 11
DEFAULT_TROOP_COUNT == 40

\* a mapping as run_single_attack reads it: positions and templates with
\* .get(key), the settings with .get("settings", {}).get(name, default)
AsRead(d) ==
    [ positions |-> [k \in PositionKeys |->
                        IF k \in DOMAIN d.positions THEN d.positions[k] ELSE None],
      templates |-> [k \in {"fifty_percent", "return_home"} |->
                        IF k \in DOMAIN d.templates THEN d.templates[k] ELSE "unset"],
      settings  |-> IF "settings" \in DOMAIN d
                    THEN d.settings
                    ELSE [troop_count |-> DEFAULT_TROOP_COUNT,
                          spell_count |-> DEFAULT_SPELL_COUNT] ]

\* configurations for the spell deployment: any of the three targets unset,
\* the siege deploy point unset, nearest to the left, the center or the
\* right target, or as near to the left as to the right one
SpellConfigs ==
    { [Config(u, "ok", "ok", 0, n) EXCEPT !.positions.siege_deploy = sd] :
        u  \in SUBSET {"spell_target_left", "spell_target_center", "spell_target_right"},
        sd \in {None, <<0, 6>>, <<10, 8>>, <<15, 6>>, <<10, 0>>},
        n  \in 0..MaxTotal }

CalcInputs ==
    {Pending("reload", [cfg |-> c]) : c \in Configs}
    \cup
    {Pending("SpellPlan", [cfg |-> c]) : c \in SpellConfigs}
    \cup
    {Pending("locate", [outs |-> o, tries |-> t, cache |-> c, mode |-> m]) :
        o \in Attempts, t \in 1..max_tries, c \in CalcCaches, m \in {"use", "update"}}
    \cup
    {Pending("distribution", [total |-> t, groups |-> g]) :
        t \in 0..MaxTotal, g \in 1..MaxGroups}
    \cup
    {Pending(f, [p1 |-> p, p2 |-> q, count |-> n]) :
        f \in Interpolations, p \in Points, q \in Points, n \in 1..MaxCount}
    \cup
    {Pending("path_points", a) : a \in PathInputs}
    \cup
    {Pending("deploy_heroes", [num_heroes |-> n, found |-> f]) :
        n \in -1..(Len(HERO_ORDER) + 1),
        f \in [{HERO_ORDER[i] : i \in DOMAIN HERO_ORDER} -> {None, <<MaxCoord, 1>>}]}

InitCalc ==
    /\ calc \in CalcInputs
    /\ EngineOff
    /\ AttackOff
    /\ batch = NoBatch
    /\ panel = NoPanel

Returned(value) ==
    /\ ~calc.done
    /\ calc' = [calc EXCEPT !.out = value, !.done = TRUE]
    /\ UNCHANGED <<attackVars, engineVars, batch, panel>>

\* detector.locate("valk", max_tries=tries) with the template installed and
\* nothing written yet
CalcLocate ==
    /\ calc.fn = "locate"
    /\ Returned(locate("valk", calc.args.outs, calc.args.tries, calc.args.cache,
                       calc.args.mode, NoFile, DOMAIN BUTTON_IMAGES, "ok"))

CalcDistribution ==
    /\ calc.fn = "distribution"
    /\ Returned(distribution(calc.args.total, calc.args.groups))

CalcInterpolate ==
    /\ calc.fn = "_interpolate_positions"
    /\ Returned(_interpolate_positions(calc.args.p1, calc.args.p2, calc.args.count))

CalcLerp ==
    /\ calc.fn = "lerp"
    /\ Returned(lerp(calc.args.p1, calc.args.p2, calc.args.count))

CalcSegment ==
    /\ calc.fn = "generate_points_on_segment"
    /\ Returned(generate_points_on_segment(calc.args.p1, calc.args.p2, calc.args.count))

CalcPath ==
    /\ calc.fn = "path_points"
    /\ Returned(path_points(calc.args.routine, calc.args.segments, calc.args.counts))

CalcHeroes ==
    /\ calc.fn = "deploy_heroes"
    /\ Returned(deploy_heroes(calc.args.num_heroes, calc.args.found))

\* step 4 of run_single_attack: the clicks it issues
CalcSpells ==
    /\ calc.fn = "SpellPlan"
    /\ Returned(SpellPlan(calc.args.cfg))

\* save_config(config) followed by config = load_config()
CalcReload ==
    /\ calc.fn = "reload"
    /\ Returned(load_config(save_config(calc.args.cfg)))

NextCalc ==
    \/ CalcReload
    \/ CalcSpells
    \/ CalcHeroes
    \/ CalcPath
    \/ CalcLocate
    \/ CalcDistribution
    \/ CalcInterpolate
    \/ CalcLerp
    \/ CalcSegment

SpecCalc == InitCalc /\ [][NextCalc]_vars

\* ------------------------------------------------------------------------
\*  Claims about run_single_attack (checked under SpecAttack)
\* ------------------------------------------------------------------------

\* stop_event was set while the monitor loop was about to test it, or
\* while it was held in _honour_pause by the pause flag
StoppedBeforeSample ==
    /\ stopAt.step = "monitor"
    /\ \/ stopAt.phase = "guard"
       \/ stopAt.phase = "pause" /\ stopAt.paused

\* C2: in the monitor loop cancellation pre-empts the success signal: when
\* stop_event is set before the loop tests it for a tick, or while the loop
\* waits in _honour_pause, the 50 % template is not sampled for that tick,
\* no wait (jitter or poll sleep) is started and the attack does not report
\* success.
C2_CancelPreemptsSuccess ==
    StoppedBeforeSample =>
        /\ samples = stopAt.samples
        /\ waits = stopAt.waits
        /\ ~got_fifty
        /\ result # "True"

\* the polls a monitor run makes when its whole time budget goes to polling
FullPollBudget == (MonitorTimeout + POLL_SLEEP - 1) \div POLL_SLEEP

MonitorTimedOut ==
    /\ pc = <<"monitor", "chk">>
    /\ _tpl(config, "fifty_percent") # None
    /\ ~got_fifty
    /\ ~stop_event

\* C3: the timeout clock excludes paused time: a monitor run that ends in
\* a timeout has made the full budget of polls, however long it was paused.
C3_TimeoutExcludesPause == MonitorTimedOut => samples = FullPollBudget

AfterTroopKinds ==
    {"hero_slot", "hero_deploy", "ability", "surrender", "confirm_ok", "return_home"}

C5_StopHaltsWithinOneAction ==
    stopAt.step # "none" =>
        /\ Len(clicks) - stopAt.clicks <= 1
        /\ waits - stopAt.waits <= 1

\* C6: while pause_event is set and stop_event is not, no troop click is
\* issued.
C6_PauseStopsTroopClicks ==
    [][ (pause_event /\ ~stop_event) =>
            CountKind(clicks', {"troop"}) = CountKind(clicks, {"troop"}) ]_vars

\* C7: every wait of an attack is bounded, so the attack returns whatever
\* the detection results and the two events do.
C7_AttackReturns == <>(result # "running")

\* the steps of run_single_attack up to and including troop deployment
UpToTroops ==
    {"zoom", "attack_menu", "find_match", "confirm_attack", "spells", "siege", "troops"}

\* C19: in a run that was not cancelled before its troop deployment ended,
\* with the troop slot and at least one edge configured, once the troop
\* step is over the slot has been clicked once and the number of troop
\* clicks on the edges equals troop_count.
C19_TroopClicksEqualCount ==
    ( /\ stopAt.step \notin UpToTroops
      /\ _pos(config, "troop") # None
      /\ EdgePairs(config) # <<>>
      /\ \/ pc[1] \in {"heroes", "abilities", "monitor", "exit"}
         \/ pc[1] = "done" /\ CountKind(clicks, {"troop_slot"}) > 0 )
        => /\ CountKind(clicks, {"troop_slot"}) = 1
           /\ CountKind(clicks, {"troop"}) = config.settings.troop_count

\* a finished, never cancelled run on three edges with more troops than
\* edges, so that the sides get unequal shares
C19_Witness ==
    /\ pc[1] = "done"
    /\ stopAt.step = "none"
    /\ Len(EdgePairs(config)) = 3
    /\ config.settings.troop_count = MaxTroops + 2
    /\ CountKind(clicks, {"troop"}) = MaxTroops + 2

\* 1 when the condition holds, else 0
Count01(b) == IF b THEN 1 ELSE 0

\* C26: with the three navigation positions set and the stop flag never
\* set, whatever else is unset, run_single_attack returns only from the end
\* of its exit sequence, having gone through the monitor stage, with a
\* boolean result, and each group of clicks is there or not according to
\* its own keys only.
C26_DegradesWithoutFailing ==
    [][ ( /\ pc[1] # "done" /\ pc'[1] = "done"
          /\ ~stop_event'
          /\ \A k \in Mandatory : _pos(config, k) # None )
          => /\ pc[1] = "exit"
             /\ result' \in {"True", "False"}
             /\ _tpl(config, "fifty_percent") # None => samples' > 0
             /\ _tpl(config, "fifty_percent") = None => ~got_fifty' /\ waits' >= 1
             /\ \A k \in Mandatory : CountKind(clicks', {k}) = 1
             /\ \A k \in {"surrender", "confirm_ok"} :
                   CountKind(clicks', {k}) = Count01(_pos(config, k) # None)
             /\ CountKind(clicks', {"spell_slot"})
                   = Count01(/\ _pos(config, "spell") # None
                             /\ SpellTargets(config) # <<>>
                             /\ config.settings.spell_count > 0)
             /\ CountKind(clicks', {"spell"})
                   = CountKind(clicks', {"spell_slot"}) * config.settings.spell_count
             /\ CountKind(clicks', {"siege_slot"})
                   = Count01(_pos(config, "siege") # None /\ _pos(config, "siege_deploy") # None)
             /\ CountKind(clicks', {"siege"}) = CountKind(clicks', {"siege_slot"})
             /\ CountKind(clicks', {"troop_slot"})
                   = Count01(_pos(config, "troop") # None /\ EdgePairs(config) # <<>>)
             /\ CountKind(clicks', {"troop"})
                   = CountKind(clicks', {"troop_slot"}) * config.settings.troop_count
             /\ CountKind(clicks', {"hero_slot"}) = Len(HeroSlots(config))
             /\ CountKind(clicks', {"hero_deploy"}) = Len(HeroSlots(config))
             /\ CountKind(clicks', {"ability"}) = Len(HeroSlots(config))
      ]_vars

\* a finished, never cancelled run without a spell slot: no spell click, and
\* the troops, the monitor and the surrender click all happened
C26_Witness ==
    /\ pc[1] = "done"
    /\ ~stop_event
    /\ _pos(config, "spell") = None
    /\ CountKind(clicks, {"spell_slot", "spell"}) = 0
    /\ CountKind(clicks, {"troop"}) = config.settings.troop_count
    /\ samples > 0
    /\ CountKind(clicks, {"surrender"}) = 1

\* the values of "return got_fifty", the result of an attack that ran to
\* the end of its exit sequence
OrdinaryResults == {"True", "False"}

\* the clicks of the deployment and exit stages
LaterKinds ==
    {"spell_slot", "spell", "siege_slot", "siege", "troop_slot", "troop",
     "hero_slot", "hero_deploy", "ability", "surrender", "confirm_ok",
     "return_home"}

\* C27: when run_single_attack comes to a navigation position that is
\* unset, it returns at once, no deployment, monitor or exit action was
\* performed, and what it hands to its caller is an error, not one of the
\* results of an attack that ran to its end.
C27_MandatoryKeyIsAnError ==
    [][ ( /\ pc[1] \in Mandatory /\ pc[2] = "act"
          /\ _pos(config, pc[1]) = None
          /\ pc' # pc )
          => /\ pc'[1] = "done"
             /\ CountKind(clicks', LaterKinds) = 0
             /\ samples' = 0 /\ waits' = 0
             /\ result' \notin OrdinaryResults
      ]_vars

\* the part of C27 that the code keeps: the attack ends there and nothing
\* of the later stages was performed
C27_AbortsBeforeDeployment ==
    [][ ( /\ pc[1] \in Mandatory /\ pc[2] = "act"
          /\ _pos(config, pc[1]) = None
          /\ pc' # pc )
          => /\ pc'[1] = "done"
             /\ CountKind(clicks', LaterKinds) = 0
             /\ samples' = 0 /\ waits' = 0
      ]_vars

\* the monitor samples the 50 % signal and finds it visible: the sample is
\* counted and the loop is left without the poll sleep
SeesSignal ==
    /\ pc = <<"monitor", "sample">>
    /\ samples' = samples + 1
    /\ clock' = clock

\* C33: got_fifty becomes true by a visible sample of the monitor and by
\* nothing else, stays true to the end of the attack, and the value
\* returned is True exactly when it is true; so an attack without a 50 %
\* template, without a sample, or ended at an unset navigation position
\* returns False.
C33_TrueIffSignalSampled ==
    /\ [][ /\ SeesSignal => got_fifty'
           /\ got_fifty' # got_fifty => (got_fifty' /\ SeesSignal)
           /\ (pc[1] # "done" /\ pc'[1] = "done") =>
                 result' = IF got_fifty THEN "True" ELSE "False"
         ]_vars
    /\ [] ( result = "True" =>
              /\ got_fifty /\ samples > 0
              /\ _tpl(config, "fifty_percent") # None
              /\ \A k \in Mandatory : _pos(config, k) # None )

\* the signal was seen on the second sample, the attack was then stopped
\* and has returned True
C33_Witness ==
    /\ pc[1] = "done"
    /\ result = "True"
    /\ samples = 2
    /\ stop_event

\* ------------------------------------------------------------------------
\*  Claims about run_attacks (checked under SpecBatch / FairSpecBatch)
\* ------------------------------------------------------------------------

\* C28: on_attack_done is invoked with the indices 1, 2, ..., k in order;
\* k is the number of attacks started, less the one still running, and is
\* at most total; an invocation happens only when the running attack has
\* returned, for that attack and with the value it returned.
C28_OneCallbackPerAttack ==
    /\ [] ( batch.has_callback =>
              /\ \A j \in 1..Len(batch.reported) : batch.reported[j][1] = j
              /\ Len(batch.reported) =
                    IF batch.phase = "attack" THEN batch.started - 1 ELSE batch.started
              /\ batch.started <= batch.total )
    /\ [][ batch'.reported # batch.reported =>
              /\ batch.phase = "attack" /\ pc[1] = "done"
              /\ result \in OrdinaryResults
              /\ batch'.reported =
                    Append(batch.reported, <<batch.started, result = "True">>)
         ]_vars

\* a batch of two attacks has returned after two invocations with different
\* outcomes
C28_Witness ==
    /\ batch.phase = "returned"
    /\ batch.total = 2
    /\ Len(batch.reported) = 2
    /\ batch.reported[1][2] # batch.reported[2][2]

Cached(cache, key) ==
    /\ "buttons" \in DOMAIN cache
    /\ key \in DOMAIN cache["buttons"]
    /\ IsPair(cache["buttons"][key])

\* C9: a locate(key) called in mode "use" on a cache that holds a valid
\* coordinate for key returns that coordinate, calls locateOnScreen zero
\* times and leaves the in-memory cache and the cache file as they were.
C9_CacheHit ==
    [][ (call'.op = "locate" /\ _cache_mode = "use" /\ Cached(_cache, call'.key))
          => /\ ret' = _cache["buttons"][call'.key]
             /\ detect_calls' = 0
             /\ _cache' = _cache
             /\ file' = file ]_vars

\* a hit on a loaded entry while the template image is present, so that
\* detection was possible and was not attempted
C9_Witness ==
    /\ call.op = "locate"
    /\ _cache_mode = "use"
    /\ Cached(_cache, call.key)
    /\ call.key \in images
    /\ ret = _cache["buttons"][call.key]
    /\ detect_calls = 0

\* C10: when the cache holds a valid coordinate for key and no attempt of
\* locate(key) detects the button, locate returns the cached coordinate, in
\* mode "update" after the failed attempts and in mode "use" without any.
C10_StaleFallback ==
    [][ ( /\ call'.op = "locate"
          /\ Cached(_cache, call'.key)
          /\ call'.detected = None
          /\ (detect_calls' > 0 \/ _cache_mode = "use") )
          => ret' = _cache["buttons"][call'.key] ]_vars

\* all max_tries attempts made and failed in mode "update", and the value
\* returned is the cached one, which differs from the hard-coded fallback
C10_Witness ==
    /\ call.op = "locate"
    /\ _cache_mode = "update"
    /\ call.detected = None
    /\ detect_calls = max_tries
    /\ Cached(_cache, call.key)
    /\ ret = _cache["buttons"][call.key]
    /\ ret # Get(BUTTON_FALLBACKS, call.key)

\* C11: whenever the cache holds a valid coordinate for key and a call of
\* locate(key) detects nothing, for whatever reason (failed attempts, an
\* exception, a template image that is not installed), the value returned
\* is the cached coordinate and never the hard-coded fallback.
C11_FallbackOnlyWithoutEntry ==
    [][ ( /\ call'.op = "locate"
          /\ call'.key \in DOMAIN BUTTON_IMAGES
          /\ Cached(_cache, call'.key)
          /\ call'.detected = None )
          => ret' = _cache["buttons"][call'.key] ]_vars

\* what a cache holds: its button entries and its list of line positions
\* (a cache without the "buttons" mapping holds no button entry)
Contents(cache) == <<Get(cache, "buttons"), Get(cache, "valk_positions")>>

\* C12: a call of locate in which no attempt detected the button (cache
\* hit, stale cache, hard-coded fallback, None) leaves the contents of the
\* in-memory cache, every key the cache had, and the cache file unchanged.
C12_MutatesOnlyOnDetection ==
    [][ (call'.op = "locate" /\ call'.detected = None)
          => /\ Contents(_cache') = Contents(_cache)
             /\ \A k \in DOMAIN _cache : k \in DOMAIN _cache' /\ _cache'[k] = _cache[k]
             /\ file' = file ]_vars

\* all max_tries attempts failed for a key without an entry, on a loaded
\* cache that holds another key: the hard-coded fallback was returned and
\* the key has no entry afterwards, in memory or in the file
C12_Witness ==
    /\ call.op = "locate"
    /\ call.detected = None
    /\ detect_calls = max_tries
    /\ ret = BUTTON_FALLBACKS[call.key]
    /\ Cached(_cache, "valk")
    /\ call.key \notin DOMAIN _cache["buttons"]
    /\ file.kind = "json"
    /\ Contents(file.doc) = Contents(_cache)

Persisted(f) == Get(load_locations(f), "buttons")

\* C14: across every call that does not end in a write cut short, each key
\* with a coordinate in the persisted cache still has an entry afterwards,
\* and the entry's value changes only in a locate of that key that
\* detected it.
C14_EntriesNeverDiscarded ==
    [][ call'.written # "partial" =>
          \A k \in {x \in DOMAIN Persisted(file) : IsPair(Persisted(file)[x])} :
              /\ k \in DOMAIN Persisted(file')
              /\ Persisted(file')[k] # Persisted(file)[k]
                    => (call'.op = "locate" /\ call'.key = k /\ call'.detected # None)
      ]_vars

\* C15: after every call that wrote the cache file, whatever the outcome of
\* the write, load_locations yields the complete document the file held
\* before or the complete document that was being saved.
C15_AtomicReplace ==
    [][ call'.written # "none" =>
          \/ load_locations(file') = load_locations(file)
          \/ load_locations(file') = _cache' ]_vars

\* ------------------------------------------------------------------------
\*  Claims about AttackSession.run (checked under SpecSession)
\* ------------------------------------------------------------------------

ExitKinds == {"surrender", "confirm_ok", "return_home"}

\* C1: whenever the latest poll of wait_for_battle_end saw both the 50 %
\* status and the Return Home button, the result is "50%" and no click on a
\* detected Return Home button has been made.
C1_SuccessWinsTie ==
    (shot.fifty_percent /\ shot.return_home)
        => outcome = "50%" /\ CountKind(eclicks, {"return_home_detected"}) = 0

\* both signals on one poll, with the return-home image available so that
\* locate_return_home would have found the button
C1_Witness ==
    /\ epc[1] = "finished"
    /\ shot.fifty_percent /\ shot.return_home
    /\ _return_home_ok
    /\ outcome = "50%"

\* C8: when run() has finished, after "50%" or "timeout" the clicks end with
\* the surrender flow (surrender, confirm OK, return home) and hold it
\* exactly once; after "return_home" the last click is the monitor's click
\* on the detected button, it is the only one of its kind and no click of
\* the surrender flow was made.
C8_ExitByOutcome ==
    epc[1] = "finished" =>
        LET n == Len(eclicks)
        IN  /\ outcome \in {"50%", "timeout", "return_home"}
            /\ outcome \in {"50%", "timeout"} =>
                  /\ n >= 3
                  /\ SubSeq(eclicks, n - 2, n) = surrender_and_return_home
                  /\ CountKind(eclicks, ExitKinds) = 3
                  /\ CountKind(eclicks, {"return_home_detected"}) = 0
            /\ outcome = "return_home" =>
                  /\ n >= 1
                  /\ eclicks[n] = Click("return_home_detected", RETURN_HOME_BUTTON)
                  /\ CountKind(eclicks, {"return_home_detected"}) = 1
                  /\ CountKind(eclicks, ExitKinds) = 0

\* a run ended by the monitor's click after a full deployment
C8_Witness ==
    /\ epc[1] = "finished"
    /\ outcome = "return_home"
    /\ CountKind(eclicks, {"valk_drop"}) = VALK_COUNT
    /\ eclicks[Len(eclicks)].k = "return_home_detected"

\* C35: when the stop flag is set while run_single_attack waits in
\* _honour_pause, no click is issued after that; when it is set while
\* run_attacks waits in its pause loop, no attack is started; in both cases
\* the wait ends, whether or not the pause flag is cleared, and
\* run_single_attack and run_attacks return.
C35_StopReleasesPause ==
    /\ [] ( (stopAt.phase = "pause" /\ stopAt.paused) =>
               Len(clicks) = stopAt.clicks )
    /\ [][ (stop_event /\ batch.phase = "pause") =>
               (batch'.started = batch.started /\ clicks' = clicks) ]_vars
    /\ ((stop_event /\ pc[2] = "pause") ~> (pc[1] = "done"))
    /\ ((stop_event /\ batch.phase = "pause") ~> (batch.phase = "returned"))

\* stopped while paused after the troops, the pause flag still set, and the
\* batch has returned with an attack left to run
C35_Witness ==
    /\ stopAt.phase = "pause" /\ stopAt.paused
    /\ stopAt.step = "troops"
    /\ pause_event /\ stop_event
    /\ pc[1] = "done" /\ result = "False"
    /\ batch.phase = "returned" /\ batch.started < batch.total

\* the batch, in its pause wait before the second attack, is stopped with
\* the pause flag still set
C35_WitnessBatch ==
    /\ batch.phase = "pause"
    /\ pause_event /\ stop_event
    /\ batch.started = 1 /\ batch.total = 2

\* a wall upgrade is due after attack i
WallDue == batch.wall_enabled /\ batch.i % batch.wall_every = 0 /\ ~stop_event

\* C38: after attack i the wall-upgrade routine is executed exactly when
\* wall upgrades are enabled, i mod wall_every = 0 and the stop flag is not
\* set; an error in it is logged and the batch goes on to its next attack.
C38_WallCycleRunsWhenDue ==
    [][ (batch.phase = "wall" /\ batch'.phase # "wall") =>
          /\ batch'.wall_cycles + batch'.wall_errors =
                batch.wall_cycles + batch.wall_errors + (IF WallDue THEN 1 ELSE 0)
          /\ (batch'.wall_cycles = batch.wall_cycles + 1) <=> WallDue
          /\ batch'.phase = "tail"
      ]_vars

\* what the code does keep: the call is attempted exactly when due, its
\* exception is logged, and the batch goes on
C38_WallCallAttemptedWhenDue ==
    [][ (batch.phase = "wall" /\ batch'.phase # "wall") =>
          /\ batch'.wall_calls = batch.wall_calls + (IF WallDue THEN 1 ELSE 0)
          /\ batch'.wall_errors = batch'.wall_calls
          /\ batch'.wall_cycles = 0
          /\ batch'.phase = "tail"
      ]_vars

\* ------------------------------------------------------------------------
\*  SetupPanel: the bot controls of the setup panel and its worker thread
\* ------------------------------------------------------------------------

\* SetupPanel.__init__: the bot state
InitPanel ==
    /\ panel = [ _bot_running |-> FALSE, _bot_stop |-> FALSE, _bot_pause |-> FALSE,
                 _panel_visible |-> TRUE, destroyed |-> FALSE, workers |-> <<>>,
                 queue |-> 0 ]
    /\ AttackOff
    /\ EngineOff
    /\ calc = NoCalc
    /\ batch = NoBatch

PanelFrame == UNCHANGED << attackVars, engineVars, calc, batch >>

\* the worker threads that have not yet handed over to _bot_finished
ActiveWorkers == { w \in DOMAIN panel.workers : panel.workers[w].at # "ended" }

\* threading.Thread(target=self._bot_loop, daemon=True).start()
NewWorker == [at |-> "begin", left |-> 0]

\* a Start handler without the test of _bot_running
_start_bot_NoGuard(missing) ==
    /\ ~panel.destroyed
    /\ Len(panel.workers) < MaxStarts
    /\ IF missing
       THEN UNCHANGED panel
       ELSE panel' = [panel EXCEPT !._bot_running = TRUE, !._bot_stop = FALSE,
                                   !._bot_pause = FALSE, !._panel_visible = FALSE,
                                   !.workers = Append(@, NewWorker)]
    /\ PanelFrame

\* the Start button; missing: one of the required positions is not set
_start_bot(missing) ==
    /\ ~panel.destroyed
    /\ Len(panel.workers) < MaxStarts
    /\ IF panel._bot_running \/ missing
       THEN UNCHANGED panel
       ELSE panel' = [panel EXCEPT !._bot_running = TRUE, !._bot_stop = FALSE,
                                   !._bot_pause = FALSE, !._panel_visible = FALSE,
                                   !.workers = Append(@, NewWorker)]
    /\ PanelFrame

\* the Stop button
_stop_bot ==
    /\ ~panel.destroyed
    /\ IF ~panel._bot_running
       THEN UNCHANGED panel
       ELSE panel' = [panel EXCEPT !._bot_stop = TRUE, !._bot_pause = FALSE]
    /\ PanelFrame

\* an F6 handler that shows and hides the panel without touching the flag
_toggle_panel_ShowOnly ==
    /\ ~panel.destroyed
    /\ IF ~panel._bot_running
       THEN UNCHANGED panel
       ELSE panel' = [panel EXCEPT !._panel_visible = ~@]
    /\ PanelFrame

\* F6, delivered to the Tk thread by root.after(0, self._toggle_panel)
_toggle_panel ==
    /\ ~panel.destroyed
    /\ IF ~panel._bot_running
       THEN UNCHANGED panel
       ELSE IF panel._panel_visible
            THEN panel' = [panel EXCEPT !._panel_visible = FALSE, !._bot_pause = FALSE]
            ELSE panel' = [panel EXCEPT !._panel_visible = TRUE, !._bot_pause = TRUE]
    /\ PanelFrame

\* WM_DELETE_WINDOW
_on_close ==
    /\ ~panel.destroyed
    /\ panel' = IF panel._bot_running
                THEN [panel EXCEPT !._bot_stop = TRUE, !._bot_pause = FALSE,
                                   !.destroyed = TRUE]
                ELSE [panel EXCEPT !.destroyed = TRUE]
    /\ PanelFrame

\* the callback a worker queued with root.after(0, self._bot_finished)
_bot_finished ==
    /\ ~panel.destroyed
    /\ panel.queue > 0
    /\ panel' = [panel EXCEPT !.queue = @ - 1, !._bot_running = FALSE,
                               !._panel_visible = TRUE]
    /\ PanelFrame

\* one step of worker thread w inside _bot_loop (the demo loop);
\* total: the value of self._total_attacks.get()
_bot_loop(w, total) ==
    /\ w \in ActiveWorkers
    /\ LET me == panel.workers[w]
           at(place) == [panel EXCEPT !.workers[w].at = place]
       IN  CASE me.at = "begin" ->
                  panel' = [panel EXCEPT !.workers[w] = [at |-> "top", left |-> total]]
             [] me.at = "top" ->
                  panel' = at(IF me.left = 0 \/ panel._bot_stop THEN "finally" ELSE "pause")
             [] me.at = "pause" ->
                  panel' = at(IF panel._bot_pause /\ ~panel._bot_stop
                              THEN "pause" ELSE "check")
             [] me.at = "check" ->
                  panel' = at(IF panel._bot_stop THEN "finally" ELSE "sleep")
             [] me.at = "sleep" ->
                  panel' = [panel EXCEPT !.workers[w] = [at |-> "top", left |-> me.left - 1]]
             [] me.at = "finally" ->
                  \* root.after raises once the root window is destroyed
                  panel' = [panel EXCEPT !.workers[w].at = "ended",
                                         !.queue = IF panel.destroyed THEN @ ELSE @ + 1]
    /\ PanelFrame

NextPanel ==
    \/ \E missing \in BOOLEAN : _start_bot(missing)
    \/ _stop_bot
    \/ _toggle_panel
    \/ _on_close
    \/ _bot_finished
    \/ \E w \in 1..MaxStarts, total \in 1..MaxAttacks : _bot_loop(w, total)

SpecPanel == InitPanel /\ [][NextPanel]_vars

\* ------------------------------------------------------------------------
\*  Claims about the setup panel (checked under SpecPanel)
\* ------------------------------------------------------------------------

\* C30: at most one worker thread of the panel is active at a time, an
\* active worker goes with _bot_running set, no event starts a worker
\* while _bot_running is set, and when a worker is started both flags are
\* clear.
C30_SingleWorker ==
    /\ [] ( /\ Cardinality(ActiveWorkers) <= 1
            /\ ActiveWorkers # {} => panel._bot_running )
    /\ [][ Len(panel'.workers) > Len(panel.workers) =>
              /\ ~panel._bot_running
              /\ ActiveWorkers = {}
              /\ ~panel'._bot_stop /\ ~panel'._bot_pause
         ]_vars

\* C34: while _bot_running is set and the stop flag is not, the pause flag
\* is set exactly when the panel is visible; a bot starts with the panel
\* hidden and the pause flag clear; while no bot is running nothing changes
\* the pause flag or the visibility of the panel.
C34_PauseIffPanelVisible ==
    /\ [] ( (panel._bot_running /\ ~panel._bot_stop) =>
               (panel._bot_pause <=> panel._panel_visible) )
    /\ [][ /\ (~panel._bot_running /\ panel'._bot_running) =>
                 (~panel'._panel_visible /\ ~panel'._bot_pause)
           /\ (~panel._bot_running /\ ~panel'._bot_running) =>
                 /\ panel'._bot_pause = panel._bot_pause
                 /\ panel'._panel_visible = panel._panel_visible
         ]_vars

\* the second bot, paused by F6 with the panel shown, its worker waiting
C34_Witness ==
    /\ panel._bot_running /\ ~panel._bot_stop
    /\ panel._bot_pause /\ panel._panel_visible
    /\ Len(panel.workers) = 2
    /\ panel.workers[2].at = "pause"

\* a second worker is running after the first was stopped while paused
C30_Witness ==
    /\ Len(panel.workers) = 2
    /\ panel.workers[1].at = "ended" /\ panel.workers[1].left > 0
    /\ panel.workers[2].at = "sleep"
    /\ ~panel._bot_stop

\* ------------------------------------------------------------------------
\*  Claims about the attacks of both implementations (checked under SpecRuns)
\* ------------------------------------------------------------------------

\* the deployment group of a click: 1 area-effect spells, 2 the siege
\* machine, 3 the line units, 4 heroes, 5 hero abilities, 0 anything else
DeployGroup(c) ==
    CASE c.k \in {"spell_slot", "spell", "earthquake", "quake"}      -> 1
      [] c.k \in {"siege_slot", "siege", "siege_drop"}               -> 2
      [] c.k \in {"troop_slot", "troop", "valk", "valk_drop"}        -> 3
      [] c.k \in {"hero_slot", "hero_deploy", "hero_drop"}           -> 4
      [] c.k \in {HERO_ORDER[i] : i \in DOMAIN HERO_ORDER}           -> 4
      [] c.k = "ability"                                             -> 5
      [] OTHER                                                       -> 0

\* the groups of the deployment clicks of q, in order, never fall
InDeployOrder(q) ==
    LET d == SelectSeq(q, LAMBDA c : DeployGroup(c) > 0)
    IN  \A i \in 1..(Len(d) - 1) : DeployGroup(d[i]) <= DeployGroup(d[i + 1])

\* C23: in every attack, of run_single_attack and of AttackSession.run, no
\* click of a later deployment group (spells, siege, line units, heroes,
\* abilities) is issued before a click of an earlier group, whichever
\* groups are skipped.
C23_FixedDeployOrder == InDeployOrder(clicks) /\ InDeployOrder(eclicks)

\* a finished run_single_attack without a siege slot: spells, troops, heroes
\* and abilities were all clicked, and no siege click was
C23_Witness ==
    /\ pc[1] = "done"
    /\ _pos(config, "siege") = None
    /\ CountKind(clicks, {"siege_slot", "siege"}) = 0
    /\ CountKind(clicks, {"spell"}) > 0
    /\ CountKind(clicks, {"troop"}) > 0
    /\ CountKind(clicks, {"hero_deploy"}) > 0
    /\ CountKind(clicks, {"ability"}) > 0

\* where the clicks of q of the kinds in `kinds` were made, in order
ClickedAt(q, kinds) ==
    LET d == SelectSeq(q, LAMBDA c : c.k \in kinds)
    IN  [i \in 1..Len(d) |-> d[i].at]

\* C25: once the activation pass of an attack is over, the coordinates it
\* clicked are the hero slot coordinates clicked by the deployment pass of
\* that attack, once each and in the same order, in run_single_attack and
\* in AttackSession.run.
C25_ActivationRepeatsSlots ==
    /\ pc[1] \in {"monitor", "exit"}
          => ClickedAt(clicks, {"ability"}) = ClickedAt(clicks, {"hero_slot"})
    /\ epc[1] \in {"monitor", "finished"}
          => ClickedAt(eclicks, {"ability"})
               = ClickedAt(eclicks, {HERO_ORDER[i] : i \in DOMAIN HERO_ORDER})

\* ------------------------------------------------------------------------
\*  Claims about the routines that compute a value (checked under SpecCalc)
\* ------------------------------------------------------------------------

\* C16: a locate that reaches detection calls locateOnScreen at most tries
\* times; every call before the last one made found nothing; it stops
\* before tries calls only on a box or an exception; it makes exactly tries
\* calls when every one finds nothing; the first box found, when no
\* exception precedes it, is what is detected and returned; and an
\* exception is never what locate hands to its caller.
C16_BoundedRetries ==
    (calc.fn = "locate" /\ calc.done) =>
        LET outs  == calc.args.outs
            tries == calc.args.tries
            n     == calc.out.calls
            hit   == calc.args.mode = "use" /\ Cached(calc.args.cache, "valk")
        IN  /\ n \in 0..tries
            /\ hit <=> n = 0
            /\ \A i \in 1..(n - 1) : outs[i] = NoBox
            /\ (0 < n /\ n < tries) => outs[n] # NoBox
            /\ (~hit /\ \A i \in 1..tries : outs[i] = NoBox) => n = tries
            /\ \A h \in 1..tries :
                  (~hit /\ outs[h] \notin {NoBox, Raised} /\ \A i \in 1..(h - 1) : outs[i] = NoBox)
                     => (n = h /\ calc.out.detected = outs[h] /\ calc.out.ret = outs[h])
            /\ calc.out.detected # Raised
            /\ calc.out.ret # Raised
            /\ calc.out.ret # None

\* the button found on the third of five attempts, with a further box and
\* an exception waiting in the attempts that were not made
C16_Witness ==
    /\ calc.fn = "locate" /\ calc.done
    /\ calc.args.tries = max_tries
    /\ calc.args.outs = <<NoBox, NoBox, SeenAt("valk"), Raised, SeenAt("valk")>>
    /\ calc.out.calls = 3
    /\ calc.out.ret = SeenAt("valk")

RECURSIVE SumSeq(_)
SumSeq(q) == IF q = <<>> THEN 0 ELSE Head(q) + SumSeq(Tail(q))

\* C17: for total >= 0 and groups >= 1 the distribution has one count per
\* group, no count is negative, the counts sum to total, any two of them
\* differ by at most one, and a total of zero gives zero everywhere.
C17_DistributionSums ==
    (calc.fn = "distribution" /\ calc.done) =>
        LET out == calc.out
        IN  /\ Len(out) = calc.args.groups
            /\ \A i \in 1..Len(out) : out[i] >= 0
            /\ SumSeq(out) = calc.args.total
            /\ \A i, j \in 1..Len(out) : out[i] - out[j] <= 1
            /\ calc.args.total = 0 => \A i \in 1..Len(out) : out[i] = 0

\* seven spread over four: a remainder of three on a base of one
C17_Witness ==
    /\ calc.fn = "distribution" /\ calc.done
    /\ calc.args.total = 7 /\ calc.args.groups = 4
    /\ calc.out = <<2, 2, 2, 1>>

\* C18: group i (counted from 0) gets base + 1 exactly when i < total mod
\* groups and base otherwise, with base = total // groups; eleven spread
\* over three gives 4, 4, 3 in that order.
C18_RemainderToFirst ==
    (calc.fn = "distribution" /\ calc.done) =>
        LET total  == calc.args.total
            groups == calc.args.groups
            base   == total \div groups
        IN  /\ \A i \in 0..(groups - 1) :
                  /\ calc.out[i + 1] \in {base, base + 1}
                  /\ calc.out[i + 1] = base + 1 <=> i < total % groups
            /\ (total = 11 /\ groups = 3) => calc.out = <<4, 4, 3>>

\* the example of the claim
C18_Witness ==
    /\ calc.fn = "distribution" /\ calc.done
    /\ calc.args.total = 11 /\ calc.args.groups = 3
    /\ calc.out = <<4, 4, 3>>

\* C20: each of the three interpolation routines, asked for one point
\* between two points that lie at least two apart in some coordinate,
\* returns exactly one point: the midpoint (to within the rounding of a
\* half), which is neither of the two end points.
C20_SinglePointIsMidpoint ==
    ( /\ calc.fn \in Interpolations /\ calc.done
      /\ calc.args.count = 1
      /\ Dist2(calc.args.p1, calc.args.p2) >= 4 )
        => LET p1 == calc.args.p1
               p2 == calc.args.p2
           IN  /\ Len(calc.out) = 1
               /\ \A k \in 1..2 :
                     2 * calc.out[1][k] \in (p1[k] + p2[k] - 1)..(p1[k] + p2[k] + 1)
               /\ calc.out[1] # p1
               /\ calc.out[1] # p2

\* C21: each interpolation routine, asked for count > 1 points, returns
\* exactly count points, the first equal to p1 and the last equal to p2, and
\* along the list no coordinate ever moves against its direction from p1 to
\* p2.
C21_EndpointsAndMonotone ==
    (calc.fn \in Interpolations /\ calc.done /\ calc.args.count > 1) =>
        LET p1  == calc.args.p1
            p2  == calc.args.p2
            n   == calc.args.count
            out == calc.out
        IN  /\ Len(out) = n
            /\ out[1] = p1
            /\ out[n] = p2
            /\ \A k \in 1..2, i \in 1..(n - 1) :
                  /\ p1[k] <= p2[k] => out[i][k] <= out[i + 1][k]
                  /\ p1[k] >= p2[k] => out[i][k] >= out[i + 1][k]

\* three points from (4, 0) to (0, 3) by attack._interpolate_positions: x
\* falls, y rises, and the middle point is rounded
C21_Witness ==
    /\ calc.fn = "_interpolate_positions" /\ calc.done
    /\ calc.args = [p1 |-> <<4, 0>>, p2 |-> <<0, 3>>, count |-> 3]
    /\ calc.out = << <<4, 0>>, <<2, 1>>, <<0, 3>> >>

\* C22: a path chained over s segments with counts c_1..c_s, each above
\* one, holds sum(c_i) - (s - 1) points; the two built-in paths of four
\* segments with counts 12, 11, 11, 11 hold 42.
C22_PathLength ==
    /\ (calc.fn = "path_points" /\ calc.done) =>
          Len(calc.out) = SumSeq(calc.args.counts) - (Len(calc.args.segments) - 1)
    /\ Len(_generate_valk_positions) = 45 - 3
    /\ Len(generate_valk_positions_raw) = 45 - 3

\* three segments with counts 2, 3 and 4: seven points
C22_Witness ==
    /\ calc.fn = "path_points" /\ calc.done
    /\ calc.args.counts = <<2, 3, 4>>
    /\ calc.args.segments[1][1] # calc.args.segments[1][2]
    /\ calc.args.segments[1][2] = calc.args.segments[2][1]
    /\ Len(calc.out) = 7

\* the points of a sequence
Range(q) == { q[i] : i \in DOMAIN q }

\* C31: every point that the chaining loop drops at a join equals the last
\* point emitted for the preceding segment, so both end points of every
\* segment are in the composite path: for the two paths the program builds
\* from its corners, and for every path built by the loop.
C31_DropsOnlyDuplicates ==
    /\ {LEFT_BOTTOM, LEFT_LEFT, LEFT_UP, RIGHT_UP, RIGHT_RIGHT, RIGHT_BOTTOM}
          \subseteq Range(_generate_valk_positions)
    /\ {LEFT_BOTTOM, LEFT_LEFT, LEFT_UP, RIGHT_UP, RIGHT_RIGHT, RIGHT_BOTTOM}
          \subseteq Range(generate_valk_positions_raw)
    /\ (calc.fn = "path_points" /\ calc.done) =>
          \A idx \in DOMAIN calc.args.segments :
             {calc.args.segments[idx][1], calc.args.segments[idx][2]}
                \subseteq Range(calc.out)

\* what the loop does keep: at a join whose two segments share the corner
\* nothing is lost, and the last point of every segment is always emitted
C31_SharedCornersKept ==
    /\ {LEFT_BOTTOM, LEFT_LEFT, LEFT_UP, RIGHT_RIGHT, RIGHT_BOTTOM}
          \subseteq Range(_generate_valk_positions)
    /\ RIGHT_UP \notin Range(_generate_valk_positions)
    /\ RIGHT_UP \notin Range(generate_valk_positions_raw)
    /\ (calc.fn = "path_points" /\ calc.done) =>
          \A idx \in DOMAIN calc.args.segments :
             /\ calc.args.segments[idx][2] \in Range(calc.out)
             /\ (idx > 1 /\ calc.args.segments[idx][1] = calc.args.segments[idx - 1][2])
                   => calc.args.segments[idx][1] \in Range(calc.out)

\* C32: when the siege deploy point is set and spells are deployed, the
\* first target clicked is a configured target at minimal distance from
\* that point, no target is clicked more often than it, and the spell
\* clicks number spell_count (with or without the siege deploy point).
C32_NearestGetsMost ==
    (calc.fn = "SpellPlan" /\ calc.done /\ calc.out # <<>>) =>
        LET cfg     == calc.args.cfg
            ref     == _pos(cfg, "siege_deploy")
            targets == Range(SpellTargets(cfg))
            at      == ClickedAt(calc.out, {"spell"})
            n(t)    == Cardinality({i \in DOMAIN at : at[i] = t})
        IN  /\ Len(at) = cfg.settings.spell_count
            /\ Range(at) \subseteq targets
            /\ ref # None =>
                  /\ \A u \in targets : Dist2(at[1], ref) <= Dist2(u, ref)
                  /\ \A u \in targets : n(at[1]) >= n(u)

\* three targets, the right one nearest to the siege deploy point, and a
\* remainder: the right target is clicked more often than the left one
C32_Witness ==
    /\ calc.fn = "SpellPlan" /\ calc.done
    /\ _pos(calc.args.cfg, "siege_deploy") = <<15, 6>>
    /\ Len(SpellTargets(calc.args.cfg)) = 3
    /\ calc.args.cfg.settings.spell_count = 4
    /\ ClickedAt(calc.out, {"spell"}) =
          << <<14, 6>>, <<14, 6>>, <<10, 9>>, <<6, 6>> >>

\* C36: after save_config followed by load_config, every position,
\* template and setting that run_single_attack reads has the value it had
\* before, and the siege and hero deployments are the same clicks.
C36_ReloadKeepsAttackInputs ==
    (calc.fn = "reload" /\ calc.done) =>
        LET before == calc.args.cfg
            after  == AsRead(calc.out)
        IN  /\ \A k \in PositionKeys : _pos(after, k) = _pos(before, k)
            /\ after.templates = before.templates
            /\ after.settings = before.settings
            /\ SiegePlan(after) = SiegePlan(before)
            /\ HeroPlan(after) = HeroPlan(before)

\* what the reload does keep: the positions named in POSITION_SCHEMA and
\* the two templates
C36_SchemaKeysKept ==
    (calc.fn = "reload" /\ calc.done) =>
        LET before == calc.args.cfg
            after  == AsRead(calc.out)
        IN  /\ \A k \in PositionKeys \cap POSITION_SCHEMA :
                  _pos(after, k) = _pos(before, k)
            /\ \A k \in PositionKeys \ POSITION_SCHEMA : _pos(after, k) = None
            /\ after.templates = before.templates
            /\ SiegePlan(after) = <<>> /\ HeroPlan(after) = <<>>

\* locateOnScreen finds nothing on any attempt
NothingSeen == [i \in 1..max_tries |-> NoBox]

\* what locate returns for each hero, in the present state of the detector,
\* when no hero is on screen
HeroesNotSeen ==
    [k \in {HERO_ORDER[i] : i \in DOMAIN HERO_ORDER} |->
        locate(k, NothingSeen, max_tries, _cache, _cache_mode, file, images, "ok").ret]

C24_HeroDeployment ==
    (calc.fn = "deploy_heroes" /\ calc.done) =>
        LET n     == calc.args.num_heroes
            found == calc.args.found
            m     == IF n < 0 THEN 0 ELSE IF n > 4 THEN 4 ELSE n
            hit   == SelectSeq(SubSeq(HERO_ORDER, 1, m), LAMBDA key : found[key] # None)
            mid(a, b) == <<(a[1] + b[1]) \div 2, (a[2] + b[2]) \div 2>>
            out   == calc.out
        IN  /\ Len(out) = 2 * Len(hit)
            /\ \A i \in 1..Len(hit) :
                  /\ out[2 * i - 1] = Click(hit[i], found[hit[i]])
                  /\ out[2 * i].at = IF HERO_SIDE[hit[i]] = "left"
                                     THEN mid(LEFT_LEFT, LEFT_BOTTOM)
                                     ELSE mid(RIGHT_RIGHT, RIGHT_BOTTOM)
            /\ \A j \in 1..Len(out) : out[j].k # HERO_ORDER[5]

\* five heroes asked for, the second not located: king, warden and champion
\* are deployed, the champion on the right
C24_Witness ==
    /\ calc.fn = "deploy_heroes" /\ calc.done
    /\ calc.args.num_heroes = 5
    /\ calc.args.found["hero_queen"] = None
    /\ Len(calc.out) = 6
    /\ calc.out[5].k = "hero_champ"
    /\ calc.out[6].at = right_mid
    /\ calc.out[4].at = left_mid

====
